---- MODULE Spec2Model ----
(***************************************************************************)
(* A model of the request-routing core of alier-node: the PatternMap trie, *)
(* the Router's enable / disable / route operations, WebApi.supports and   *)
(* WebEntity.verify.                                                       *)
(***************************************************************************)
EXTENDS Integers, Sequences, FiniteSets, TLC

(***************************************************************************)
(* Bounds.                                                                 *)
(***************************************************************************)
\* the number of calls made on one map, or on one router
MaxOps == 3
\* the number of slashes a request path ends with
MaxSlashes == 2
\* the number of bytes a Content-Length header declares
MaxBodyBytes == 2
\* the number of characters of a request path
MaxUrlLen == 5
\* the number of tokens of a header value
MaxTokens == 8
\* the depth of the objects of a JSON document
MaxDepth == 2
\* the number of trailing segments of a request for a file
MaxTrailing == 3
\* the number of types of an Accept header
MaxAccept == 2
\* the number of calls made on a JsonCachedCredentialStore
MaxCalls == 2
\* the numbers of tokens of the patterns, and of segments of the paths
TokenCounts == {0, 1, 2}
\* the callers of a map; each passes Pattern objects of its own, so that one
\* token sequence is carried by as many Pattern objects as there are callers
Callers == {1, 2}

(***************************************************************************)
(* Pattern (src/Pattern.js is not part of the sources; tokens and kind are *)
(* those of the specification, section 4.1).                               *)
(***************************************************************************)
Literals == {"a", "b"}
\* the parameter token of the i-th segment; names are unique in a pattern
ParamNames == <<":x", ":y", ":z">>
ParamTokens == {ParamNames[i] : i \in 1..Len(ParamNames)}
WildcardToken == "*"

\* token sequences of length n: literals and parameters, "*" only last
TokensOfLen(n) ==
    {s \in [1..n -> Literals \cup ParamTokens \cup {WildcardToken}] :
        \A i \in 1..n :
            /\ (s[i] = WildcardToken => i = n)
            /\ (s[i] \in ParamTokens => s[i] = ParamNames[i])}

TokenSeqs == UNION {TokensOfLen(n) : n \in TokenCounts}

\* Pattern.kind: "forward" iff the final token is "*"
Kind(tokens) ==
    IF Len(tokens) > 0 /\ tokens[Len(tokens)] = WildcardToken
    THEN "forward" ELSE "exact"

\* a Pattern object: its tokens and the identity of the object
PatternObjs == [tokens : TokenSeqs, obj : Callers]

\* Pattern.escape(path): every segment of a concrete path is a literal token
Escape(segs) == [tokens |-> segs, obj |-> 0]

(***************************************************************************)
(* PatternMap: a trie.  A node is named by the edge keys that lead to it   *)
(* from the root; root is a function from the nodes that exist to their    *)
(* values.  Every node has one parent, because set() attaches only nodes   *)
(* it has just created.                                                    *)
(***************************************************************************)
wordwise_wildcard == "SEGMENT_WILDCARD"
wildcard == "TERMINAL_WILDCARD"
\* the value of a node that holds none
Undefined == [undefined |-> TRUE]
NoNode == <<"no node">>
EmptyMap == (<< >> :> Undefined)

\* __Node__.has(key), for the node n of the trie t
NodeHas(t, n, key) == Append(n, key) \in DOMAIN t

\* PatternMap.#getKeys: one key per token; throws on a pattern without tokens
GetKeysThrows(p) == Len(p.tokens) = 0

GetKeys(p) ==
    [i \in 1..Len(p.tokens) |->
        IF i = Len(p.tokens) /\ Kind(p.tokens) = "forward" THEN wildcard
        ELSE IF p.tokens[i] \in ParamTokens THEN wordwise_wildcard
        ELSE p.tokens[i]]

\* SetWalk, but a parameter key settles for a literal child that is there
RECURSIVE SetWalk_ParamTakesLiteral(_, _, _)
SetWalk_ParamTakesLiteral(t, n, keys) ==
    IF keys = << >> THEN [t |-> t, n |-> n]
    ELSE IF NodeHas(t, n, wordwise_wildcard)
        THEN SetWalk_ParamTakesLiteral(t, Append(n, wordwise_wildcard), Tail(keys))
    ELSE IF NodeHas(t, n, wildcard)
        THEN [t |-> t, n |-> Append(n, wildcard)]
    ELSE IF NodeHas(t, n, Head(keys))
        THEN SetWalk_ParamTakesLiteral(t, Append(n, Head(keys)), Tail(keys))
    ELSE IF Head(keys) = wordwise_wildcard /\ \E l \in Literals : NodeHas(t, n, l)
        THEN LET l == CHOOSE k \in Literals : NodeHas(t, n, k)
             IN  SetWalk_ParamTakesLiteral(t, Append(n, l), Tail(keys))
    ELSE SetWalk_ParamTakesLiteral(t @@ (Append(n, Head(keys)) :> Undefined),
                                   Append(n, Head(keys)), Tail(keys))

\* the loop of PatternMap.set: the node the value goes to, creating nodes
RECURSIVE SetWalk(_, _, _)
SetWalk(t, n, keys) ==
    IF keys = << >> THEN [t |-> t, n |-> n]
    ELSE IF NodeHas(t, n, wordwise_wildcard)
        THEN SetWalk(t, Append(n, wordwise_wildcard), Tail(keys))
    ELSE IF NodeHas(t, n, wildcard)
        THEN [t |-> t, n |-> Append(n, wildcard)]
    ELSE IF NodeHas(t, n, Head(keys))
        THEN SetWalk(t, Append(n, Head(keys)), Tail(keys))
    ELSE SetWalk(t @@ (Append(n, Head(keys)) :> Undefined),
                 Append(n, Head(keys)), Tail(keys))

\* the node PatternMap.set(pattern, value) assigns to
SetNode(t, p) == SetWalk(t, << >>, GetKeys(p)).n

\* PatternMap.set(pattern, value), for a pattern with tokens
PatternMapSet(t, p, v) ==
    LET w == SetWalk(t, << >>, GetKeys(p))
    IN  [w.t EXCEPT ![w.n] = v]

\* GetWalk, but the child under the key is preferred to the segment wildcard
RECURSIVE GetWalk_LiteralFirst(_, _, _)
GetWalk_LiteralFirst(t, n, keys) ==
    IF keys = << >> THEN n
    ELSE IF NodeHas(t, n, wildcard) THEN Append(n, wildcard)
    ELSE IF NodeHas(t, n, Head(keys))
        THEN GetWalk_LiteralFirst(t, Append(n, Head(keys)), Tail(keys))
    ELSE IF NodeHas(t, n, wordwise_wildcard)
        THEN GetWalk_LiteralFirst(t, Append(n, wordwise_wildcard), Tail(keys))
    ELSE NoNode

\* the loop of PatternMap.#getNode
RECURSIVE GetWalk(_, _, _)
GetWalk(t, n, keys) ==
    IF keys = << >> THEN n
    ELSE IF NodeHas(t, n, wildcard) THEN Append(n, wildcard)
    ELSE IF NodeHas(t, n, wordwise_wildcard)
        THEN GetWalk(t, Append(n, wordwise_wildcard), Tail(keys))
    ELSE IF NodeHas(t, n, Head(keys))
        THEN GetWalk(t, Append(n, Head(keys)), Tail(keys))
    ELSE NoNode

\* PatternMap.#getNode(pattern), for a pattern with tokens
GetNode(t, p) == GetWalk(t, << >>, GetKeys(p))

\* PatternMap.get(pattern)
PatternMapGet(t, p) ==
    IF GetNode(t, p) = NoNode THEN Undefined ELSE t[GetNode(t, p)]

\* PatternMap.has(pattern)
PatternMapHas(t, p) == GetNode(t, p) # NoNode

IsPrefix(n, m) == Len(n) <= Len(m) /\ SubSeq(m, 1, Len(n)) = n

\* __Node__.remove(): the node leaves its parent, and its subtree with it
NodeRemove(t, n) == [m \in {k \in DOMAIN t : ~IsPrefix(n, k)} |-> t[m]]

\* PatternMap.delete(pattern): the map afterwards
PatternMapDelete(t, p) ==
    IF GetNode(t, p) = NoNode THEN t ELSE NodeRemove(t, GetNode(t, p))

(***************************************************************************)
(* WebEntity, WebApi, WebResource and the authentication protocols.        *)
(***************************************************************************)
HttpMethods == {"GET", "POST", "PUT", "DELETE", "HEAD", "OPTIONS", "PATCH"}

\* String.prototype.toUpperCase / toLowerCase on the method names in use
ToUpperCase(m) ==
    CASE m \in {"GET", "get"} -> "GET"
      [] m \in {"POST", "post"} -> "POST"
      [] m \in {"PUT", "put"} -> "PUT"
      [] m \in {"DELETE", "delete"} -> "DELETE"
      [] m \in {"HEAD", "head"} -> "HEAD"
      [] m \in {"OPTIONS", "options"} -> "OPTIONS"
      [] m \in {"PATCH", "patch"} -> "PATCH"
      [] m \in {"TRACE", "trace"} -> "TRACE"
      [] m \in {"CONSTRUCTOR", "constructor"} -> "CONSTRUCTOR"

ToLowerCase(m) ==
    CASE m \in {"GET", "get"} -> "get"
      [] m \in {"POST", "post"} -> "post"
      [] m \in {"PUT", "put"} -> "put"
      [] m \in {"DELETE", "delete"} -> "delete"
      [] m \in {"HEAD", "head"} -> "head"
      [] m \in {"OPTIONS", "options"} -> "options"
      [] m \in {"PATCH", "patch"} -> "patch"
      [] m \in {"TRACE", "trace"} -> "trace"
      [] m \in {"CONSTRUCTOR", "constructor"} -> "constructor"

\* the authentication protocols in use: DigestAuthProtocol, and two protocols
\* an application derives from AbstractAuthProtocol: "bearer" answers its
\* scheme alone as challenge, "Basic" keeps the base getChallenge()
NoChallenge == "no challenge"
Protocols ==
    [Digest |-> [scheme |-> "Digest", challenge |-> "Digest nonce, opaque, algorithm, qop"],
     bearer |-> [scheme |-> "bearer", challenge |-> "bearer"],
     Basic  |-> [scheme |-> "Basic", challenge |-> NoChallenge]]

\* an entity: its class, its path, the function-valued properties of the
\* prototype of its immediate class (own: the methods the class defines, and
\* "constructor"), the methods an intermediate class between it and WebApi
\* defines (inherited), and its protocols in registration order
NoEntity == Undefined

ApiEntity(t, k) ==
    [id |-> <<t, k>>, path |-> t,
     class |-> IF Kind(t) = "exact" THEN "WebApi" ELSE "WebResource",
     own |-> IF Kind(t) = "exact" THEN {"get", "constructor"} ELSE {"constructor"},
     inherited |-> {}, protocols |-> << >>]

\* the entities enable/disable are exercised with: one per Pattern object
LookupEntities == {ApiEntity(p.tokens, p.obj) : p \in PatternObjs}

\* the entities requests are dispatched to
DispatchEntities ==
    {[id |-> <<<<"a">>, 1>>, path |-> <<"a">>, class |-> "WebApi",
      own |-> {"get", "post", "put", "delete", "head", "constructor"}, inherited |-> {},
      protocols |-> << >>],
     [id |-> <<<<"b">>, 1>>, path |-> <<"b">>, class |-> "WebApi",
      own |-> {"post", "constructor"}, inherited |-> {"get", "put"},
      protocols |-> <<"Digest">>],
     [id |-> <<<<"a", "*">>, 1>>, path |-> <<"a", "*">>, class |-> "WebResource",
      own |-> {"constructor"}, inherited |-> {},
      protocols |-> <<"bearer", "Basic">>],
     [id |-> <<<<"b", ":y">>, 1>>, path |-> <<"b", ":y">>, class |-> "WebApi",
      own |-> {"get", "post", "put", "constructor"}, inherited |-> {},
      protocols |-> <<"bearer">>]}

\* WebEntity.path: the Pattern object the constructor made
PathOf(e) == [tokens |-> e.path, obj |-> e.id[2]]

\* the function a property lookup of entity[method_lc] finds
ResolveHandler(e, method_lc) ==
    IF method_lc \in e.own THEN "own"
    ELSE IF method_lc \in e.inherited THEN "inherited"
    ELSE "base"

\* Supports, but without the test that the method is one of HttpMethods
Supports_AnyFunction(e, method) ==
    /\ e.class = "WebApi"
    /\ ToLowerCase(method) \in e.own

\* WebApi.supports(webApi, method)
Supports(e, method) ==
    /\ e.class = "WebApi"
    /\ ToUpperCase(method) \in HttpMethods
    /\ ToLowerCase(method) \in e.own

\* WebEntity.authRequired
AuthRequired(e) == Len(e.protocols) > 0

\* WebEntity.getAuthProtocol(scheme): the Map holds each protocol under the
\* scheme it reports
NoProtocol == "no protocol"
GetAuthProtocol(e, scheme) ==
    IF \E i \in 1..Len(e.protocols) : Protocols[e.protocols[i]].scheme = scheme
    THEN CHOOSE n \in {e.protocols[i] : i \in 1..Len(e.protocols)} :
            Protocols[n].scheme = scheme
    ELSE NoProtocol

\* WebEntity.getChallenge(scheme)
GetChallenge(e, scheme) ==
    IF GetAuthProtocol(e, scheme) = NoProtocol THEN NoChallenge
    ELSE Protocols[GetAuthProtocol(e, scheme)].challenge

\* WebEntity.getChallenges(): the challenges that are defined, in order
GetChallenges(e) ==
    SelectSeq([i \in 1..Len(e.protocols) |->
                  GetChallenge(e, Protocols[e.protocols[i]].scheme)],
              LAMBDA c : c # NoChallenge)

\* the authorization header a client sends: none, or credentials that
\* begin with this scheme
NoHeader == "no header"
AuthHeaders == {NoHeader, "Digest", "digest", "bearer", "Bearer", "basic"}

\* split_scheme_and_token68: params.scheme is the lowercased scheme
SchemeToLowerCase(scheme) ==
    CASE scheme \in {"Digest", "digest"} -> "digest"
      [] scheme \in {"Bearer", "bearer"} -> "bearer"
      [] scheme \in {"Basic", "basic"} -> "basic"

\* what a protocol's verify() may answer; a missing member is NoScheme,
\* NoStatus, or hasReason = FALSE
NoScheme == "no scheme"
NoStatus == 0
NoResult == [undefined |-> TRUE]
VerifyResults(n) ==
    IF n = "Digest"
    THEN [ok : BOOLEAN, scheme : {"Digest"}, status : {NoStatus},
          hasReason : {FALSE}]
    ELSE [ok : BOOLEAN, scheme : {NoScheme, Protocols[n].scheme},
          status : {NoStatus, 400, 401, 403, 500}, hasReason : BOOLEAN]
            \cup {NoResult}

\* WebEntity.verify(request): the protocol it delegates to, if any
VerifyDelegate(e, auth) ==
    IF ~AuthRequired(e) \/ auth = NoHeader THEN NoProtocol
    ELSE GetAuthProtocol(e, SchemeToLowerCase(auth))

\* WebEntity.verify(request), given the answer pv of the protocol
Verify(e, auth, pv) ==
    IF ~AuthRequired(e)
    THEN [ok |-> TRUE, scheme |-> NoScheme, status |-> NoStatus,
          hasReason |-> FALSE]
    ELSE IF VerifyDelegate(e, auth) = NoProtocol
    THEN [ok |-> FALSE, scheme |-> NoScheme, status |-> NoStatus,
          hasReason |-> FALSE]
    ELSE pv

(***************************************************************************)
(* Router.                                                                 *)
(***************************************************************************)
\* FormatRequestPath, but one trailing slash is handled (/\/$/ for /\/*$/)
FormatRequestPath_OneSlash(policy, path) ==
    CASE policy = "remove" ->
            [path EXCEPT !.slashes = IF @ > 0 THEN @ - 1 ELSE 0]
      [] policy = "add" -> [path EXCEPT !.slashes = IF @ = 0 THEN 1 ELSE @]
      [] OTHER -> path

\* Router.#formatRequestPath: a path is its segments and the number of
\* slashes it ends with; "/" has no segment and ends with one slash
FormatRequestPath(policy, path) ==
    CASE policy = "remove" -> [path EXCEPT !.slashes = 0]
      [] policy = "add" -> [path EXCEPT !.slashes = 1]
      [] OTHER -> path

\* ResolveMethodOverride, but the last header present wins
ResolveMethodOverride_LastWins(allows, method, override) ==
    IF ~allows \/ method # "POST" THEN method
    ELSE IF override[3] # NoHeader THEN ToUpperCase(override[3])
    ELSE IF override[2] # NoHeader THEN ToUpperCase(override[2])
    ELSE IF override[1] # NoHeader THEN ToUpperCase(override[1])
    ELSE method

\* Router.#resolveMethodOverride: override holds the values of x-http-method,
\* x-http-method-override and x-method-override, NoHeader when absent
ResolveMethodOverride(allows, method, override) ==
    IF ~allows \/ method # "POST" THEN method
    ELSE IF override[1] # NoHeader THEN ToUpperCase(override[1])
    ELSE IF override[2] # NoHeader THEN ToUpperCase(override[2])
    ELSE IF override[3] # NoHeader THEN ToUpperCase(override[3])
    ELSE method

\* the www-authenticate value: whether it is a string, and its parts
HeaderValue(parts) == [defined |-> TRUE, parts |-> parts]
UndefinedValue == [defined |-> FALSE, parts |-> << >>]
NoWwwAuthenticate == [defined |-> FALSE, parts |-> <<"absent">>]

\* Router.route, lines 262-293: the www-authenticate header of a refusal
WwwAuthenticate(e, vr) ==
    IF vr.scheme = NoScheme THEN HeaderValue(GetChallenges(e))
    ELSE LET value == GetChallenge(e, vr.scheme)
         IN  IF vr.hasReason
             THEN HeaderValue(<<IF value = NoChallenge THEN "undefined" ELSE value,
                                IF value = vr.scheme THEN " " ELSE ", ",
                                "reason">>)
             ELSE IF value = NoChallenge THEN UndefinedValue
             ELSE HeaderValue(<<value>>)

\* Router.route, line 255: the status of a refusal
RefusalStatus(vr) ==
    IF vr.scheme # NoScheme
    THEN (IF vr.status # NoStatus THEN vr.status ELSE 401)
    ELSE 401

\* the body of a response that reports no error
NoError == [message |-> "none", status |-> 0]

\* a response: the arguments of writeHead, whether write was called, and
\* how often writeHead and end were called; headers are the members of the
\* envelope passed to writeHead as headers, members those in the JSON body,
\* error is the error the body reports
Response(status, www, json, retryAfter, body) ==
    [status |-> status, www |-> www,
     contentLength |-> json, contentType |-> IF json THEN "application/json" ELSE "none",
     retryAfter |-> retryAfter, body |-> body, writeHead |-> 1, end |-> 1,
     headers |-> {}, members |-> {}, error |-> NoError]

\* route rejected before writeHead: nothing is written
NoResponse ==
    [status |-> 0, www |-> NoWwwAuthenticate, contentLength |-> FALSE,
     contentType |-> "none", retryAfter |-> FALSE, body |-> FALSE,
     writeHead |-> 0, end |-> 0,
     headers |-> {}, members |-> {}, error |-> NoError]

\* what a handler answers: an envelope, a WebApiError or another error
\* a control member of an envelope: absent, or the boolean it holds
Absent == "absent"
IsBoolean(x) == x \in {"true", "false"}
Envelope(statusCode, noContent, created, accepted) ==
    [statusCode |-> statusCode, noContent |-> noContent, created |-> created,
     accepted |-> accepted]
HandlerOk(envelope) ==
    [retryAfter |-> FALSE, statusCode |-> 0, envelope |-> envelope, kind |-> "ok",
     description |-> "none"]
HandlerError(kind, statusCode, retryAfter) ==
    [retryAfter |-> retryAfter, statusCode |-> statusCode,
     envelope |-> Envelope(NoStatus, Absent, Absent, Absent), kind |-> kind,
     description |-> "Something went wrong"]

\* the members of an envelope: the control members it holds, and the member
\* "location" that stands for what else the handler returns
EnvelopeMembers(v) ==
    {"location"}
    \cup (IF v.statusCode # NoStatus THEN {"statusCode"} ELSE {})
    \cup {f \in {"noContent", "created", "accepted"} : v[f] # Absent}

\* Number.isInteger(s) && 200 <= s && s <= 599
ValidStatus(statusCode) == statusCode # NoStatus /\ 200 <= statusCode /\ statusCode <= 599

\* PutStatus, but 200 needs noContent and created to hold true
PutStatus_BothTrue(v) ==
    IF v.noContent = "true" /\ v.created = "true" THEN 200
    ELSE IF v.noContent = "true" THEN 204
    ELSE IF v.created = "true" THEN 201
    ELSE IF ValidStatus(v.statusCode) THEN v.statusCode
    ELSE 200

\* Router.route, lines 417-426
PutStatus(v) ==
    IF IsBoolean(v.noContent) /\ IsBoolean(v.created) THEN 200
    ELSE IF v.noContent = "true" THEN 204
    ELSE IF v.created = "true" THEN 201
    ELSE IF ValidStatus(v.statusCode) THEN v.statusCode
    ELSE 200

\* DeleteStatus, but 200 needs noContent and accepted to hold true
DeleteStatus_BothTrue(v) ==
    IF v.noContent = "true" /\ v.accepted = "true" THEN 200
    ELSE IF v.noContent = "true" THEN 204
    ELSE IF v.accepted = "true" THEN 202
    ELSE IF ValidStatus(v.statusCode) THEN v.statusCode
    ELSE 200

\* Router.route, lines 435-444
DeleteStatus(v) ==
    IF IsBoolean(v.noContent) /\ IsBoolean(v.accepted) THEN 200
    ELSE IF v.noContent = "true" THEN 204
    ELSE IF v.accepted = "true" THEN 202
    ELSE IF ValidStatus(v.statusCode) THEN v.statusCode
    ELSE 200

\* Router.route, lines 460-463
OtherStatus(v) == IF ValidStatus(v.statusCode) THEN v.statusCode ELSE 200

\* ErrorResponse, but every error is wrapped into an InternalServerError
ErrorResponse_Wrapped(h) ==
    [Response(500, NoWwwAuthenticate, TRUE, FALSE, TRUE)
       EXCEPT !.error = [message |-> "Something went wrong", status |-> 500]]

\* Router.route, lines 387-412 and 325-350: the response to a failed handler
ErrorResponse(h) ==
    LET status_code == IF h.kind = "WebApiError" THEN h.statusCode ELSE 500
        description == IF h.kind = "WebApiError" THEN h.description
                       ELSE "Something went wrong"
    IN  [Response(status_code, NoWwwAuthenticate, TRUE,
                  h.kind = "WebApiError" /\ h.retryAfter, TRUE)
           EXCEPT !.error = [message |-> description, status |-> status_code]]

\* Router.route, lines 413-472: the response to an envelope
EnvelopeResponse(method, v) ==
    CASE method = "HEAD" ->
            [Response(204, NoWwwAuthenticate, FALSE, FALSE, FALSE)
               EXCEPT !.headers = EnvelopeMembers(v)]
      [] method = "PUT" ->
            [Response(PutStatus(v), NoWwwAuthenticate, FALSE, FALSE, FALSE)
               EXCEPT !.headers = EnvelopeMembers(v)
                                  \ {"statusCode", "noContent", "created"}]
      [] method = "DELETE" ->
            [Response(DeleteStatus(v), NoWwwAuthenticate,
                      DeleteStatus(v) # 204, FALSE, DeleteStatus(v) # 204)
               EXCEPT !.members = IF DeleteStatus(v) = 204 THEN {}
                                  ELSE EnvelopeMembers(v)
                                       \ {"statusCode", "noContent", "accepted"}]
      [] OTHER ->
            [Response(OtherStatus(v), NoWwwAuthenticate,
                      OtherStatus(v) # 204, FALSE, OtherStatus(v) # 204)
               EXCEPT !.members = IF OtherStatus(v) = 204 THEN {}
                                  ELSE EnvelopeMembers(v) \ {"statusCode"}]

\* Refused, but no verification result ever refuses
Refused_Never(vr) == FALSE

\* Router.route, line 253: the request is refused
Refused(vr) == ~vr.ok

\* RequestDesc, but the method is the effective one
RequestDesc_Effective(original_method, method) == [method |-> method]

\* Router.route, line 211: the request descriptor entity.verify is given;
\* of its members the method is kept
RequestDesc(original_method, method) == [method |-> original_method]

\* the outcome of a route that did not reach verify
Unrouted(method, resp, threw) ==
    [method |-> method, path |-> [segs |-> << >>, slashes |-> 0],
     endpoint |-> NoEntity, supports |-> FALSE,
     verified |-> FALSE, request_desc |-> [method |-> "none"],
     delegate |-> NoProtocol, vr |-> NoResult,
     invoked |-> "none", resp |-> resp, threw |-> threw]

\* Router.route(request, response): map is #web_entity_map, cfg the options,
\* req the request, parsed says whether RequestParser.parse resolved, pv is
\* the answer of the protocol verify delegates to, h that of the handler
RouteOutcome(map, cfg, req, parsed, pv, h) ==
    LET path == FormatRequestPath(cfg.trailingSlashPolicy, req.path)
        method == ResolveMethodOverride(cfg.allowsPostMethodOverride,
                                        req.method, req.override)
        path_pattern == Escape(path.segs)
        endpoint == PatternMapGet(map, path_pattern)
    IN
    IF ~parsed
    THEN [Unrouted(req.method,
                   Response(400, NoWwwAuthenticate, TRUE, FALSE, TRUE), FALSE)
            EXCEPT !.path = req.path]
    ELSE IF GetKeysThrows(path_pattern)
    THEN [Unrouted(method, NoResponse, TRUE) EXCEPT !.path = path]
    ELSE IF endpoint = Undefined
    THEN [Unrouted(method,
                   Response(404, NoWwwAuthenticate, method # "HEAD", FALSE,
                            method # "HEAD"), FALSE)
            EXCEPT !.path = path]
    ELSE IF /\ ~(endpoint.class = "WebResource" /\ method = "GET")
            /\ ~(endpoint.class = "WebApi" /\ Supports(endpoint, method))
    THEN [Unrouted(method,
                   Response(405, NoWwwAuthenticate, method # "HEAD", FALSE,
                            method # "HEAD"), FALSE)
            EXCEPT !.path = path, !.endpoint = endpoint]
    ELSE
    LET result == Verify(endpoint, req.auth, pv)
        vr == IF result = NoResult
              THEN [ok |-> FALSE, scheme |-> NoScheme, status |-> NoStatus,
                    hasReason |-> FALSE]
              ELSE result
        www == WwwAuthenticate(endpoint, vr)
        routed == [method |-> method, path |-> path, endpoint |-> endpoint,
                   supports |-> Supports(endpoint, method),
                   verified |-> TRUE,
                   request_desc |-> RequestDesc(req.method, method),
                   delegate |-> VerifyDelegate(endpoint, req.auth),
                   vr |-> vr, invoked |-> "none", resp |-> NoResponse,
                   threw |-> FALSE]
    IN
    IF Refused(vr)
    THEN IF www.defined
         THEN [routed EXCEPT !.resp = Response(RefusalStatus(vr), www,
                                               method # "HEAD", FALSE,
                                               method # "HEAD")]
         ELSE [routed EXCEPT !.threw = TRUE]
    ELSE IF endpoint.class = "WebResource"
    THEN IF ~req.accept
         THEN [routed EXCEPT !.threw = TRUE]
         ELSE [routed EXCEPT
                 !.invoked = "WebResource.get",
                 !.resp = IF h.kind = "ok"
                          THEN [Response(200, NoWwwAuthenticate, TRUE, FALSE, TRUE)
                                  EXCEPT !.contentType = "content type of the resource"]
                          ELSE ErrorResponse(h)]
    ELSE [routed EXCEPT
            !.invoked = ToLowerCase(method),
            !.resp = IF h.kind = "ok" THEN EnvelopeResponse(method, h.envelope)
                     ELSE ErrorResponse(h)]

(***************************************************************************)
(* State.                                                                  *)
(***************************************************************************)
VARIABLES
    root,           \* PatternMap.#root of a map used on its own
    setBy,          \* for each node of root that holds a value, the Pattern
                    \* object passed to the set() that stored it
    web_entity_map, \* Router.#web_entity_map
    router,         \* the options the Router was constructed with
    last,           \* the latest call, its arguments and its outcome
    nops,           \* the number of calls made so far (MaxOps once a request
                    \* has been routed)
    incoming,       \* the request RequestParser.parse is reading: the locals
                    \* content_length and actual_content_length, and whether
                    \* its body decodes as its Content-Type says
    parser,         \* the header value being parsed: the locals of the
                    \* parser (state, desc, the tokens kept), what its latest
                    \* step yielded and the error it threw
    digest,         \* the DigestAuthProtocol constructed (its private
                    \* fields), and the table of credentials it looks up
    store,          \* a credential store: _store, the JSON file behind it
                    \* and the calls that have not settled
    connector       \* a database connector: its client, the clients
                    \* created and the calls that have not settled

vars == <<root, setBy, web_entity_map, router, last, nops, incoming, parser,
          digest, store, connector>>

\* no credential store is in use
NoStore == [kind |-> "none"]

\* no database connector is in use
NoConnector == [kind |-> "none"]

\* no DigestAuthProtocol is in use
NoDigest == [constructed |-> "none"]

\* no header is being parsed
NoParser == [kind |-> "none", state |-> "none", yielded |-> << >>]

\* no request is being received
NoIncoming == [content_length |-> -1, actual_content_length |-> 0, decodes |-> TRUE]

\* a caller c holds the value Value(c) and passes Pattern objects of its own
ValueNames == <<"v1", "v2", "v3">>
Value(c) == [value |-> ValueNames[c]]
NoCall == [op |-> "none"]
DefaultOptions ==
    [trailingSlashPolicy |-> "remove", allowsPostMethodOverride |-> FALSE]

(***************************************************************************)
(* PatternMap used on its own: set and delete with any pattern.            *)
(***************************************************************************)
InitMap ==
    /\ root = EmptyMap
    /\ setBy = << >>
    /\ web_entity_map = EmptyMap
    /\ router = DefaultOptions
    /\ last = NoCall
    /\ nops = 0
    /\ incoming = NoIncoming
    /\ parser = NoParser
    /\ digest = NoDigest
    /\ store = NoStore
    /\ connector = NoConnector

\* PatternMap.set(p, v)
MapSet(p, v) ==
    /\ nops < MaxOps
    /\ nops' = nops + 1
    /\ IF GetKeysThrows(p)
       THEN /\ last' = [op |-> "set", pat |-> p, val |-> v, res |-> "throw"]
            /\ UNCHANGED <<root, setBy, digest,
                 store, connector>>
       ELSE /\ root' = PatternMapSet(root, p, v)
            /\ setBy' = [n \in {m \in DOMAIN root' : root'[m] # Undefined} |->
                            IF n = SetNode(root, p) THEN p ELSE setBy[n]]
            /\ last' = [op |-> "set", pat |-> p, val |-> v, res |-> "ok"]
    /\ UNCHANGED <<web_entity_map, router, incoming, parser, digest,
                 store, connector>>

\* PatternMap.delete(p)
MapDelete(p) ==
    /\ nops < MaxOps
    /\ nops' = nops + 1
    /\ IF GetKeysThrows(p)
       THEN /\ last' = [op |-> "delete", pat |-> p, res |-> "throw"]
            /\ UNCHANGED <<root, setBy, digest,
                 store, connector>>
       ELSE /\ root' = PatternMapDelete(root, p)
            /\ setBy' = [n \in {m \in DOMAIN root' : root'[m] # Undefined} |->
                            setBy[n]]
            /\ last' = [op |-> "delete", pat |-> p,
                        res |-> IF PatternMapHas(root, p) THEN "true" ELSE "false"]
    /\ UNCHANGED <<web_entity_map, router, incoming, parser, digest,
                 store, connector>>

\* PatternMap.get(p)
MapGet(p) ==
    /\ nops < MaxOps
    /\ nops' = nops + 1
    /\ last' = IF GetKeysThrows(p)
               THEN [op |-> "get", pat |-> p, res |-> "throw", val |-> Undefined]
               ELSE [op |-> "get", pat |-> p, res |-> "ok",
                     val |-> PatternMapGet(root, p)]
    /\ UNCHANGED <<root, setBy, web_entity_map, router, incoming, parser, digest,
                 store, connector>>

NextMap ==
    \/ \E p \in PatternObjs : MapSet(p, Value(p.obj))
    \/ \E p \in {q \in PatternObjs : q.obj = 1} : MapDelete(p)
    \/ \E p \in {q \in PatternObjs : q.obj = 1} : MapGet(p)

SpecMap == InitMap /\ [][NextMap]_vars

(***************************************************************************)
(* Router: enable, disable and route.                                      *)
(***************************************************************************)
\* Enable, but the entity is stored whatever the lookup of its path yields
Enable_Overwrite(e) ==
    /\ nops < MaxOps
    /\ nops' = nops + 1
    /\ IF GetKeysThrows(PathOf(e))
       THEN /\ last' = [op |-> "enable", entity |-> e, res |-> "TypeError"]
            /\ UNCHANGED web_entity_map
       ELSE /\ last' = [op |-> "enable", entity |-> e, res |-> "ok"]
            /\ web_entity_map' = PatternMapSet(web_entity_map, PathOf(e), e)
    /\ UNCHANGED <<root, setBy, router, incoming, parser, digest,
                 store, connector>>

\* Router.enable(webEntity)
Enable(e) ==
    /\ nops < MaxOps
    /\ nops' = nops + 1
    /\ IF GetKeysThrows(PathOf(e))
       THEN /\ last' = [op |-> "enable", entity |-> e, res |-> "TypeError"]
            /\ UNCHANGED web_entity_map
       ELSE LET old_entity == PatternMapGet(web_entity_map, PathOf(e))
            IN  IF old_entity # Undefined /\ old_entity # e
                THEN /\ last' = [op |-> "enable", entity |-> e, res |-> "Error"]
                     /\ UNCHANGED web_entity_map
                ELSE /\ last' = [op |-> "enable", entity |-> e, res |-> "ok"]
                     /\ web_entity_map' =
                            IF old_entity = Undefined
                            THEN PatternMapSet(web_entity_map, PathOf(e), e)
                            ELSE web_entity_map
    /\ UNCHANGED <<root, setBy, router, incoming, parser, digest,
                 store, connector>>

\* Router.disable(webEntity)
Disable(e) ==
    /\ nops < MaxOps
    /\ nops' = nops + 1
    /\ IF GetKeysThrows(PathOf(e))
       THEN /\ last' = [op |-> "disable", entity |-> e, res |-> "TypeError"]
            /\ UNCHANGED web_entity_map
       ELSE /\ last' = [op |-> "disable", entity |-> e, res |-> "ok"]
            /\ web_entity_map' =
                    IF PatternMapGet(web_entity_map, PathOf(e)) = e
                    THEN PatternMapDelete(web_entity_map, PathOf(e))
                    ELSE web_entity_map
    /\ UNCHANGED <<root, setBy, router, incoming, parser, digest,
                 store, connector>>

\* Router.route(request, response).  A request changes nothing in the router,
\* so a run is explored up to its first request: the calls before it set
\* the router up
Route(req, parsed, pv, h) ==
    /\ nops < MaxOps
    /\ nops' = MaxOps
    /\ last' = [op |-> "route", req |-> req, parsed |-> parsed, answer |-> h,
                out |-> RouteOutcome(web_entity_map, router, req, parsed, pv, h)]
    /\ UNCHANGED <<root, setBy, web_entity_map, router, incoming, parser, digest,
                 store, connector>>

\* the concrete paths requested
PathSegs == UNION {[1..n -> Literals] : n \in TokenCounts}
\* the paths that end with one of these numbers of slashes; the path without
\* segments is "/" at the least
PathsEndingWith(counts) ==
    {p \in [segs : PathSegs, slashes : counts \cup {1}] :
        IF p.segs = << >> THEN p.slashes >= 1 ELSE p.slashes \in counts}
NoOverride == <<NoHeader, NoHeader, NoHeader>>
DefaultEnvelope == Envelope(NoStatus, Absent, Absent, Absent)
\* Router.route, line 385: the handler returned nothing, so the envelope is {}
DefaultAnswer == HandlerOk(DefaultEnvelope)

\* a router with default options and entities without protocols, requests
\* that are GET without headers
LookupRequests ==
    [path : PathsEndingWith({0, 1}), method : {"GET"},
     override : {NoOverride}, auth : {NoHeader}, accept : {TRUE}]

InitRouter ==
    /\ root = EmptyMap
    /\ setBy = << >>
    /\ web_entity_map = EmptyMap
    /\ router = DefaultOptions
    /\ last = NoCall
    /\ nops = 0
    /\ incoming = NoIncoming
    /\ parser = NoParser
    /\ digest = NoDigest
    /\ store = NoStore
    /\ connector = NoConnector

NextRouter ==
    \/ \E e \in LookupEntities : Enable(e)
    \/ \E e \in {f \in LookupEntities : f.id[2] = 1} : Disable(e)
    \/ \E req \in LookupRequests :
            Route(req, TRUE, NoResult, DefaultAnswer)

SpecRouter == InitRouter /\ [][NextRouter]_vars

(***************************************************************************)
(* Dispatch: entities of both classes, with and without protocols, and     *)
(* requests with any method, override headers and authorization header.    *)
(***************************************************************************)
OverrideHeaders ==
    {NoOverride, <<"put", NoHeader, NoHeader>>, <<NoHeader, "trace", "put">>,
     <<NoHeader, NoHeader, "constructor">>}

DispatchRequests ==
    {r \in [path : PathsEndingWith({0}),
            method : HttpMethods \cup {"TRACE"},
            override : OverrideHeaders, auth : AuthHeaders, accept : BOOLEAN] :
        /\ (r.method \notin {"POST", "GET"} => r.override = NoOverride)
        /\ (r.method = "GET" => r.override[2] = NoHeader /\ r.override[3] = NoHeader)
        /\ (r.method # "GET" => r.accept)}

HandlerOutcomes ==
    {DefaultAnswer,
     HandlerOk(Envelope(NoStatus, "true", Absent, Absent)),
     HandlerError("WebApiError", 503, TRUE),
     HandlerError("Error", 0, FALSE)}

\* the request handed over when RequestParser.parse rejects
UnparsedRequest ==
    [path |-> [segs |-> << >>, slashes |-> 1], method |-> "GET",
     override |-> NoOverride, auth |-> NoHeader, accept |-> TRUE]

InitDispatch ==
    /\ root = EmptyMap
    /\ setBy = << >>
    /\ web_entity_map = EmptyMap
    /\ router \in [trailingSlashPolicy : {"remove"},
                   allowsPostMethodOverride : BOOLEAN]
    /\ last = NoCall
    /\ nops = 0
    /\ incoming = NoIncoming
    /\ parser = NoParser
    /\ digest = NoDigest
    /\ store = NoStore
    /\ connector = NoConnector

\* a request that parses: the protocol answers only if verify delegates to
\* it, the handler only if it is invoked
RouteParsed(req) ==
    /\ nops < MaxOps
    /\ LET d == RouteOutcome(web_entity_map, router, req, TRUE, NoResult,
                             DefaultAnswer)
       IN  \E pv \in (IF d.delegate # NoProtocol
                      THEN VerifyResults(d.delegate) ELSE {NoResult}) :
             LET o == RouteOutcome(web_entity_map, router, req, TRUE, pv,
                                   DefaultAnswer)
             IN  \E h \in (IF o.invoked # "none" THEN HandlerOutcomes
                           ELSE {DefaultAnswer}) :
                    Route(req, TRUE, pv, h)

NextDispatch ==
    \/ \E e \in DispatchEntities : Enable(e)
    \/ \E req \in DispatchRequests : RouteParsed(req)
    \/ Route(UnparsedRequest, FALSE, NoResult, DefaultAnswer)

SpecDispatch == InitDispatch /\ [][NextDispatch]_vars

(***************************************************************************)
(* Handlers: entities without protocols, and every answer a handler gives. *)
(***************************************************************************)
HandlerEntities ==
    {[id |-> <<<<"a">>, 1>>, path |-> <<"a">>, class |-> "WebApi",
      own |-> {"get", "post", "put", "delete", "head", "constructor"},
      inherited |-> {}, protocols |-> << >>],
     ApiEntity(<<"b", "*">>, 1)}

HandlerRequests ==
    [path : {[segs |-> <<"a">>, slashes |-> 0], [segs |-> <<"b", "a">>, slashes |-> 0]},
     method : {"GET", "HEAD", "POST", "PUT", "DELETE"},
     override : {NoOverride}, auth : {NoHeader}, accept : {TRUE}]

\* statusCode of an envelope: absent, or an integer around the valid range
StatusCodes == {NoStatus, 199, 200, 204, 404, 599, 600}
Flags == {Absent, "true", "false"}
Envelopes ==
    {Envelope(s, n, c, a) : s \in StatusCodes, n \in Flags, c \in Flags, a \in Flags}

\* a WebApiError holds a statusCode in [100, 599] and a description, which
\* is "Something went wrong" when none is given (WebApiError.js 37-102)
HandlerAnswers ==
    {HandlerOk(v) : v \in Envelopes}
    \cup {[HandlerError("WebApiError", s, r) EXCEPT !.description = d] :
             s \in {100, 404, 500, 503, 599}, r \in BOOLEAN,
             d \in {"Something went wrong", "Service Unavailable"}}
    \cup {HandlerError("Error", 0, FALSE)}

InitHandler ==
    /\ root = EmptyMap
    /\ setBy = << >>
    /\ web_entity_map = EmptyMap
    /\ router = DefaultOptions
    /\ last = NoCall
    /\ nops = 0
    /\ incoming = NoIncoming
    /\ parser = NoParser
    /\ digest = NoDigest
    /\ store = NoStore
    /\ connector = NoConnector

\* a request that parses: the handler answers only if it is invoked
RouteHandled(req) ==
    LET o == RouteOutcome(web_entity_map, router, req, TRUE, NoResult,
                          DefaultAnswer)
    IN  \E h \in (IF o.invoked # "none" THEN HandlerAnswers
                  ELSE {DefaultAnswer}) :
            Route(req, TRUE, NoResult, h)

NextHandler ==
    \/ \E e \in HandlerEntities : Enable(e)
    \/ \E req \in HandlerRequests : RouteHandled(req)

SpecHandler == InitHandler /\ [][NextHandler]_vars

(***************************************************************************)
(* Request bodies: a request arrives as "data" events and an "end" event,  *)
(* and is routed at its end.                                               *)
(***************************************************************************)
\* RequestParser.parse, but a body longer than declared is let through
ParseResolves_AtLeast(in) ==
    /\ ~(in.content_length >= 0 /\ in.content_length > in.actual_content_length)
    /\ in.decodes

\* RequestParser.parse, the "end" handler: the promise resolves unless the
\* declared length differs from the bytes counted or the body fails to decode
ParseResolves(in) ==
    /\ ~(in.content_length >= 0 /\ in.content_length # in.actual_content_length)
    /\ in.decodes

\* Content-Length is absent (-1) or declares up to MaxBodyBytes bytes
InitParse ==
    /\ root = EmptyMap
    /\ setBy = << >>
    /\ web_entity_map = EmptyMap
    /\ router = DefaultOptions
    /\ last = NoCall
    /\ nops = 0
    /\ incoming \in [content_length : -1..MaxBodyBytes,
                     actual_content_length : {0}, decodes : BOOLEAN]
    /\ parser = NoParser
    /\ digest = NoDigest
    /\ store = NoStore
    /\ connector = NoConnector

\* RequestParser.parse, the "data" handler: a chunk of n bytes; bytes are
\* counted only if a length is declared
Data(n) ==
    /\ nops < MaxOps
    /\ incoming.actual_content_length + n <= MaxBodyBytes + 1
    /\ incoming' = IF incoming.content_length >= 0
                   THEN [incoming EXCEPT !.actual_content_length = @ + n]
                   ELSE incoming
    /\ last' = [op |-> "data", bytes |-> n]
    /\ UNCHANGED <<root, setBy, web_entity_map, router, nops, parser, digest,
                 store, connector>>

\* the "end" event: parse settles, and Router.route goes on with the request
End(req) ==
    IF ParseResolves(incoming)
    THEN RouteHandled(req)
    ELSE Route(req, FALSE, NoResult, DefaultAnswer)

NextParse ==
    \/ \E e \in HandlerEntities : Enable(e)
    \/ \E n \in 1..2 : Data(n)
    \/ \E req \in HandlerRequests : End(req)

SpecParse == InitParse /\ [][NextParse]_vars

(***************************************************************************)
(* Cancellation: the events of the request stream interleave with the      *)
(* awaits of Router.route.  settled is the state of the promise parse      *)
(* returned, cancelled says whether the stream has emitted "error" or has  *)
(* been aborted.                                                           *)
(***************************************************************************)
CancelRequests ==
    {r \in DispatchRequests :
        r.method \in {"GET", "POST"} /\ r.override = NoOverride /\ r.accept}

InitCancel ==
    /\ root = EmptyMap
    /\ setBy = << >>
    /\ web_entity_map = EmptyMap
    /\ router = DefaultOptions
    /\ last = NoCall
    /\ nops = 0
    /\ incoming \in [content_length : {-1, 1}, actual_content_length : {0},
                     decodes : {TRUE}, settled : {"pending"}, cancelled : {FALSE}]
    /\ parser = NoParser
    /\ digest = NoDigest
    /\ store = NoStore
    /\ connector = NoConnector

\* a "data" event: none comes once the stream has ended or has been cancelled
StreamData(n) ==
    /\ incoming.settled = "pending" /\ ~incoming.cancelled
    /\ Data(n)

\* the "end" event: the "end" handler settles the promise
StreamEnd ==
    /\ nops < MaxOps
    /\ incoming.settled = "pending" /\ ~incoming.cancelled
    /\ incoming' = [incoming EXCEPT
                      !.settled = IF ParseResolves(incoming) THEN "resolved"
                                  ELSE "rejected"]
    /\ last' = [op |-> "end"]
    /\ UNCHANGED <<root, setBy, web_entity_map, router, nops, parser, digest,
                 store, connector>>

\* a stream event is a task of its own: it comes while parse is pending or
\* while route awaits the protocol, never between the settling of a promise
\* and the continuation that awaits it
AtTaskBoundary == incoming.settled = "pending" \/ last.op = "verify"

\* the "error" event: reject_fn(error), which does nothing to a promise
\* that is settled
StreamError ==
    /\ nops < MaxOps
    /\ ~incoming.cancelled /\ AtTaskBoundary
    /\ incoming' = [incoming EXCEPT
                      !.cancelled = TRUE,
                      !.settled = IF @ = "pending" THEN "rejected" ELSE @]
    /\ UNCHANGED <<root, setBy, web_entity_map, router, last, nops, parser, digest,
                 store, connector>>

\* the request is aborted and no "error" event is emitted: parse listens to
\* "data", "end" and "error" only
StreamAborted ==
    /\ nops < MaxOps
    /\ ~incoming.cancelled /\ AtTaskBoundary
    /\ incoming' = [incoming EXCEPT !.cancelled = TRUE]
    /\ UNCHANGED <<root, setBy, web_entity_map, router, last, nops, parser, digest,
                 store, connector>>

\* Router.route after `await Result(RequestParser.parse(request))`: a
\* rejection is answered; otherwise route runs up to `await
\* endpoint.verify(request_desc)`, and awaits the protocol if verify
\* delegates to one
RouteAfterParse(req) ==
    /\ nops < MaxOps
    /\ last.op \notin {"verify", "route"}
    /\ incoming.settled # "pending"
    /\ IF incoming.settled = "rejected"
       THEN Route(req, FALSE, NoResult, DefaultAnswer)
       ELSE IF RouteOutcome(web_entity_map, router, req, TRUE, NoResult,
                            DefaultAnswer).delegate # NoProtocol
       THEN /\ last' = [op |-> "verify", req |-> req]
            /\ UNCHANGED <<root, setBy, web_entity_map, router, nops, incoming, parser, digest,
                 store, connector>>
       ELSE Route(req, TRUE, NoResult, DefaultAnswer)

\* Router.route after `await endpoint.verify(request_desc)`: the protocol
\* has answered pv
RouteAfterVerify(pv) ==
    /\ last.op = "verify"
    /\ LET d == RouteOutcome(web_entity_map, router, last.req, TRUE, NoResult,
                             DefaultAnswer)
       IN  /\ d.delegate # NoProtocol
           /\ pv \in VerifyResults(d.delegate)
    /\ Route(last.req, TRUE, pv, DefaultAnswer)

NextCancel ==
    \/ \E e \in DispatchEntities : Enable(e)
    \/ StreamData(1)
    \/ StreamEnd
    \/ StreamError
    \/ StreamAborted
    \/ \E req \in CancelRequests : RouteAfterParse(req)
    \/ \E pv \in UNION {VerifyResults(n) : n \in DOMAIN Protocols} :
            RouteAfterVerify(pv)

SpecCancel == InitCancel /\ [][NextCancel]_vars

(***************************************************************************)
(* Handler parameters.  A request path is a string here; a map (query, a   *)
(* decoded body, the extracted parameters) is a function from its own keys *)
(* to its values.                                                          *)
(***************************************************************************)
RECURSIVE Concat(_)
\* the string a sequence of characters spells
Concat(cs) == IF cs = << >> THEN "" ELSE Head(cs) \o Concat(Tail(cs))

\* the characters request paths are written with
PathChars == {"/", "u", "%", "2", "F"}
\* the request paths of up to MaxUrlLen characters
Urls ==
    {"/" \o Concat(cs) : cs \in UNION {[1..n -> PathChars] : n \in 0..(MaxUrlLen - 1)}}

RECURSIVE SplitSegments(_, _)
\* Pattern tokenisation of a path: split on "/", keep the segments that are
\* not empty; word is the segment being read
SplitSegments(s, word) ==
    IF s = ""
    THEN IF word = "" THEN << >> ELSE <<word>>
    ELSE IF Head(s) = "/"
    THEN (IF word = "" THEN << >> ELSE <<word>>) \o SplitSegments(Tail(s), "")
    ELSE SplitSegments(Tail(s), word \o Head(s))

RECURSIVE TrailingSlashes(_)
TrailingSlashes(s) ==
    IF s # "" /\ SubSeq(s, Len(s), Len(s)) = "/"
    THEN 1 + TrailingSlashes(SubSeq(s, 1, Len(s) - 1))
    ELSE 0

\* a request path as its segments and the slashes it ends with
ParsePath(s) == [segs |-> SplitSegments(s, ""), slashes |-> TrailingSlashes(s)]

\* the characters %XX stands for, for the hexadecimal pairs PathChars can
\* spell; any other pair is no UTF-8 sequence
PercentEncoded == [x \in {"2F", "22"} |-> IF x = "2F" THEN "/" ELSE "\""]

RECURSIVE DecodeURIComponent(_)
\* decodeURIComponent(s): the decoded string, or a URIError (ok is FALSE)
DecodeURIComponent(s) ==
    IF s = "" THEN [ok |-> TRUE, value |-> ""]
    ELSE IF Head(s) # "%"
    THEN LET r == DecodeURIComponent(Tail(s))
         IN  [ok |-> r.ok, value |-> IF r.ok THEN Head(s) \o r.value ELSE ""]
    ELSE IF Len(s) >= 3 /\ SubSeq(s, 2, 3) \in DOMAIN PercentEncoded
    THEN LET r == DecodeURIComponent(SubSeq(s, 4, Len(s)))
         IN  [ok |-> r.ok,
              value |-> IF r.ok THEN PercentEncoded[SubSeq(s, 2, 3)] \o r.value
                        ELSE ""]
    ELSE [ok |-> FALSE, value |-> ""]

\* the name of a parameter token: ":y" is named "y"
ParamName(token) == SubSeq(token, 2, Len(token))

\* Pattern.extract(path).params of an exact pattern: the segments the
\* parameter tokens stand for, as they are written in the path; undefined
\* when the path does not match
PatternExtract(tokens, segs) ==
    IF /\ Len(tokens) = Len(segs)
       /\ \A i \in 1..Len(tokens) : tokens[i] \in ParamTokens \/ tokens[i] = segs[i]
    THEN [defined |-> TRUE,
          params |-> [k \in {ParamName(tokens[i]) :
                               i \in {j \in 1..Len(tokens) : tokens[j] \in ParamTokens}}
                        |-> LET i == CHOOSE j \in 1..Len(tokens) :
                                        tokens[j] \in ParamTokens /\ ParamName(tokens[j]) = k
                            IN  segs[i]]]
    ELSE [defined |-> FALSE, params |-> << >>]

\* merge, but a later source does not replace what an earlier one has set
Merge_KeepFirst(target, source) ==
    [k \in DOMAIN target \cup (DOMAIN source \ {"__proto__"}) |->
        IF k \in DOMAIN target THEN target[k] ELSE source[k]]

\* merge(target, source): every own key of source but "__proto__" is
\* assigned to target
Merge(target, source) ==
    [k \in DOMAIN target \cup (DOMAIN source \ {"__proto__"}) |->
        IF k \in DOMAIN source \ {"__proto__"} THEN source[k] ELSE target[k]]

\* the empty object
EmptyObject == [k \in {} |-> ""]

\* DecodedParams, but the extracted values are passed on as written
DecodedParams_Raw(extracted) ==
    [ok |-> TRUE, params |-> extracted]

\* Router.route, lines 373-379: every extracted value is decoded
DecodedParams(extracted) ==
    [ok |-> \A k \in DOMAIN extracted : DecodeURIComponent(extracted[k]).ok,
     params |-> [k \in DOMAIN extracted |-> DecodeURIComponent(extracted[k]).value]]

\* a request body as RequestParser.parse decoded it: a map (fields), or a
\* string or bytes (text)
Body(kind, fields, text) == [kind |-> kind, fields |-> fields, text |-> text]
\* the body of a request that carries no content: zero bytes
EmptyBody == Body("bytes", EmptyObject, "")

\* Router.route, lines 366-382: the params a WebApi handler is called with
HandlerParams(endpoint, method, path, query, body) ==
    LET params == Merge(EmptyObject, query)
        with_body ==
            IF method \notin {"GET", "HEAD", "DELETE"}
            THEN Merge(params, IF body.kind \in {"string", "bytes"}
                               THEN [body |-> body.text] ELSE body.fields)
            ELSE params
        extracted == PatternExtract(endpoint.path, path.segs)
        decoded == DecodedParams(extracted.params)
    IN  IF ~extracted.defined THEN [ok |-> TRUE, params |-> with_body]
        ELSE IF ~decoded.ok THEN [ok |-> FALSE, params |-> EmptyObject]
        ELSE [ok |-> TRUE, params |-> Merge(with_body, decoded.params)]

\* Router.route for a request with a query and a body: the outcome, and the
\* params the handler has been called with; a URIError of
\* decodeURIComponent rejects route before the handler is called
RouteParams(url, method, query, body) ==
    /\ nops < MaxOps
    /\ nops' = MaxOps
    /\ \E req \in {[path |-> ParsePath(url), method |-> method,
                     override |-> NoOverride, auth |-> NoHeader, accept |-> TRUE]} :
       \E o \in {RouteOutcome(web_entity_map, router, req, TRUE, NoResult,
                              DefaultAnswer)} :
       LET called == o.invoked # "none" /\ o.endpoint.class = "WebApi"
       IN
       \E p \in {IF called
                 THEN HandlerParams(o.endpoint, o.method, o.path, query, body)
                 ELSE [ok |-> TRUE, params |-> EmptyObject]} :
           last' = [op |-> "route", req |-> req, parsed |-> TRUE,
                    answer |-> DefaultAnswer,
                    url |-> url, query |-> query, body |-> body,
                    called |-> called /\ p.ok, params |-> p.params,
                    out |-> IF p.ok THEN o
                            ELSE [o EXCEPT !.invoked = "none", !.threw = TRUE,
                                           !.resp = NoResponse]]
    /\ UNCHANGED <<root, setBy, web_entity_map, router, incoming, parser, digest,
                 store, connector>>

\* the entities parameters are extracted for
ParamEntities ==
    {[id |-> <<<<"u", ":y">>, 1>>, path |-> <<"u", ":y">>, class |-> "WebApi",
      own |-> {"get", "post", "delete", "constructor"}, inherited |-> {},
      protocols |-> << >>],
     [id |-> <<<<"u">>, 1>>, path |-> <<"u">>, class |-> "WebApi",
      own |-> {"get", "post", "constructor"}, inherited |-> {},
      protocols |-> << >>]}

\* the maps with keys among keys and values among values
Maps(keys, values) == UNION {[d -> values] : d \in SUBSET keys}

Queries == Maps({"y", "k"}, {"of the query"})
Bodies ==
    {Body("map", m, "") : m \in Maps({"y", "k", "body"}, {"of the body"})}
    \cup {Body("string", EmptyObject, "text"), Body("bytes", EmptyObject, "bytes")}

InitParams ==
    /\ root = EmptyMap
    /\ setBy = << >>
    /\ web_entity_map = EmptyMap
    /\ router = DefaultOptions
    /\ last = NoCall
    /\ nops = 0
    /\ incoming = NoIncoming
    /\ parser = NoParser
    /\ digest = NoDigest
    /\ store = NoStore
    /\ connector = NoConnector

NextParams ==
    \/ \E e \in ParamEntities : Enable(e)
    \/ \E url \in {"/u", "/u/2", "/u/%2F", "/u/2/F"},
          method \in {"GET", "POST", "DELETE"},
          query \in Queries, body \in Bodies :
            RouteParams(url, method, query, body)

SpecParams == InitParams /\ [][NextParams]_vars

\* the entities whose parameters stand for any segment
DecodeEntities ==
    {[id |-> <<<<":x">>, 1>>, path |-> <<":x">>, class |-> "WebApi",
      own |-> {"get", "constructor"}, inherited |-> {}, protocols |-> << >>],
     [id |-> <<<<":x", ":y">>, 1>>, path |-> <<":x", ":y">>, class |-> "WebApi",
      own |-> {"get", "constructor"}, inherited |-> {}, protocols |-> << >>]}

\* every path of up to MaxUrlLen characters, with no query and no body
NextDecode ==
    \/ \E e \in DecodeEntities : Enable(e)
    \/ \E url \in Urls :
            RouteParams(url, "GET", EmptyObject, EmptyBody)

SpecDecode == InitParams /\ [][NextDecode]_vars

(***************************************************************************)
(* JSON in requests.  A JSON value is a string (the leaf) or an object of  *)
(* own keys; JSON.parse makes "__proto__" an own key like any other, and   *)
(* the reviver of parseJson deletes it wherever it stands.                 *)
(***************************************************************************)
JsonKeys == {"__proto__", "k"}
Leaf == [kind |-> "string", fields |-> EmptyObject]

RECURSIVE JsonObjects(_)
\* the JSON objects nested up to depth deep
JsonObjects(depth) ==
    IF depth = 0 THEN {}
    ELSE LET inner == {Leaf} \cup JsonObjects(depth - 1)
         IN  {[kind |-> "object", fields |-> f] : f \in Maps(JsonKeys, inner)}

\* parseJson, but the reviver is asked about the keys of the outermost
\* object only
ParseJson_Shallow(json) ==
    IF json.kind # "object" THEN json
    ELSE [json EXCEPT !.fields = [k \in DOMAIN json.fields \ {"__proto__"} |->
                                    json.fields[k]]]

RECURSIVE ParseJson(_)
\* parseJson(json): JSON.parse calls the reviver for every key of every
\* object, innermost first, and deletes the keys it returns undefined for
ParseJson(json) ==
    IF json.kind # "object" THEN json
    ELSE [json EXCEPT !.fields = [k \in DOMAIN json.fields \ {"__proto__"} |->
                                    ParseJson(json.fields[k])]]

\* Router.route, lines 193-206: the query of a router that parses it as
\* JSON; q is an ordinary object, so assigning to q["__proto__"] sets its
\* prototype and adds no own key
JsonQuery(raw_query) ==
    [k \in DOMAIN raw_query \ {"__proto__"} |-> ParseJson(raw_query[k])]

\* what a request carries, as it is received: a JSON body, a urlencoded
\* body, or a query, for a router that parses it as JSON or not
Carriers == {"application/json", "application/x-www-form-urlencoded",
             "query", "query as JSON"}

\* a request is received whose body or query is written as raw
Receive(carrier, raw) ==
    /\ nops < MaxOps
    /\ "carrier" \notin DOMAIN incoming
    /\ incoming' = [carrier |-> carrier, raw |-> raw]
    /\ last' = [op |-> "receive"]
    /\ UNCHANGED <<root, setBy, web_entity_map, router, nops, parser, digest,
                 store, connector>>

\* the strings of a urlencoded body or of a query left as it is
Strings(raw) == [k \in DOMAIN raw.fields |-> Leaf]

\* the request received is decoded (RequestParser.parse, lines 1659-1682)
\* and routed
RouteReceived ==
    /\ "carrier" \in DOMAIN incoming
    /\ LET raw == incoming.raw
           none == EmptyBody
       IN
       CASE incoming.carrier = "application/json" ->
                RouteParams("/u", "POST", EmptyObject,
                            Body("map", ParseJson(raw).fields, ""))
         [] incoming.carrier = "application/x-www-form-urlencoded" ->
                RouteParams("/u", "POST", EmptyObject, Body("map", Strings(raw), ""))
         [] incoming.carrier = "query" ->
                RouteParams("/u", "GET", Strings(raw), none)
         [] incoming.carrier = "query as JSON" ->
                RouteParams("/u", "GET", JsonQuery(raw.fields), none)

\* the WebApi the requests are routed to
JsonEntities ==
    {[id |-> <<<<"u">>, 1>>, path |-> <<"u">>, class |-> "WebApi",
      own |-> {"get", "post", "constructor"}, inherited |-> {},
      protocols |-> << >>]}

NextJson ==
    \/ \E e \in JsonEntities : Enable(e)
    \/ /\ "carrier" \notin DOMAIN incoming
       /\ \E carrier \in Carriers, raw \in JsonObjects(MaxDepth) : Receive(carrier, raw)
    \/ RouteReceived

SpecJson == InitParams /\ [][NextJson]_vars

(***************************************************************************)
(* Digest authentication.  A missing property or argument is "undefined".  *)
(* A digest is written H(data) after the name of its hash, so that two    *)
(* digests are equal when they are of the same data.                       *)
(***************************************************************************)
\* DigestAuthProtocol.algorithmMapForHash
algorithmMapForHash == [algorithm \in {"SHA-256"} |-> "sha256"]

\* the new DigestAuthProtocol(params): constructed is "yes", or "threw"
\* for the TypeError of a missing secretData or qop, and for the TypeError
\* of crypto.createHash(undefined), the algorithm having no entry in
\* algorithmMapForHash
DigestAuthProtocol(params, users) ==
    LET algorithm == IF params.algorithm = "undefined" THEN "MD5"
                     ELSE params.algorithm
        threw == [constructed |-> "threw", algorithm |-> algorithm,
                  hash |-> "undefined", qop |-> params.qop,
                  realm |-> params.realm, users |-> users]
    IN  IF params.secretData = "undefined" \/ params.qop = "undefined" THEN threw
        ELSE IF algorithm \notin DOMAIN algorithmMapForHash THEN threw
        ELSE [threw EXCEPT !.constructed = "yes",
                           !.hash = algorithmMapForHash[algorithm]]

\* hash.copy(), update(data), digest(): the digest of data
Digest(hash, data) == hash \o "(" \o data \o ")"

\* Users.getContent(username, ...): the content stored for the user,
\* undefined when there is none; getTable throws when the table is not
\* registered
GetContent(users, username) ==
    IF ~users.registered THEN [rejected |-> TRUE, content |-> "undefined"]
    ELSE [rejected |-> FALSE,
          content |-> IF username \in DOMAIN users.content
                      THEN users.content[username] ELSE "undefined"]

\* the response verifyParameters computes for the parameters and a password
DigestResponse(d, method, parameters, password) ==
    LET hashedA1 == Digest(d.hash, parameters.username \o ":" \o d.realm \o ":"
                                   \o password)
        hashedA2 == Digest(d.hash, method \o ":" \o parameters.uri)
    IN  Digest(d.hash, hashedA1 \o ":" \o parameters.nonce \o ":" \o parameters.nc
                       \o ":" \o parameters.cnonce \o ":" \o parameters.qop
                       \o ":" \o hashedA2)

\* verifyParameters, but the answer is that of the comparison alone
VerifyParameters_AnyPassword(d, method, parameters) ==
    LET password == GetContent(d.users, parameters.username)
    IN  IF password.rejected THEN [threw |-> TRUE, ok |-> FALSE]
        ELSE [threw |-> FALSE,
              ok |-> DigestResponse(d, method, parameters, password.content)
                        = parameters.response]

\* DigestAuthProtocol.verifyParameters(method, parameters)
VerifyParameters(d, method, parameters) ==
    LET password == GetContent(d.users, parameters.username)
    IN  IF password.rejected THEN [threw |-> TRUE, ok |-> FALSE]
        ELSE [threw |-> FALSE,
              ok |-> /\ password.content # "undefined"
                     /\ DigestResponse(d, method, parameters, password.content)
                            = parameters.response]

\* DigestAuthProtocol.verify(request): the header of an IncomingMessage is
\* parsed by parseAuthorizationHeader, that of a request description is
\* its first descriptor; a missing or malformed header throws, and whatever
\* is thrown inside the try is answered with ok: false
DigestVerify(d, request) ==
    LET inner == IF request.authorization.malformed
                 THEN [threw |-> TRUE, ok |-> FALSE]
                 ELSE VerifyParameters(d, request.method,
                                       request.authorization.params)
    IN  [rejected |-> FALSE, ok |-> ~inner.threw /\ inner.ok, scheme |-> "Digest"]

\* the parameters a client sends
DigestParameters(username, response) ==
    [username |-> username, uri |-> "/", nonce |-> "n", nc |-> "1",
     cnonce |-> "c", qop |-> "auth", response |-> response]

\* the tables of credentials
CredentialTables ==
    {[registered |-> FALSE, content |-> EmptyObject],
     [registered |-> TRUE, content |-> EmptyObject],
     [registered |-> TRUE, content |-> [alice |-> "secret"]]}

\* the params a DigestAuthProtocol is constructed with
ConstructorParams ==
    [qop : {"auth", "auth-int", "undefined"}, secretData : {"s", "undefined"},
     algorithm : {"MD5", "SHA-256", "undefined"}, realm : {"r"}]

InitDigest ==
    /\ root = EmptyMap
    /\ setBy = << >>
    /\ web_entity_map = EmptyMap
    /\ router = DefaultOptions
    /\ last = NoCall
    /\ nops = 0
    /\ incoming = NoIncoming
    /\ parser = NoParser
    /\ digest \in {[constructed |-> "no", users |-> users] : users \in CredentialTables}
    /\ store = NoStore
    /\ connector = NoConnector

\* new DigestAuthProtocol(params)
Construct(params) ==
    /\ digest.constructed = "no"
    /\ digest' = DigestAuthProtocol(params, digest.users)
    /\ last' = [op |-> "construct", params |-> params]
    /\ UNCHANGED <<root, setBy, web_entity_map, router, nops, incoming, parser,
                 store, connector>>

\* the requests verified: of either class, with no authorization header
\* or a malformed one, or with the parameters of a client that knows the
\* password, takes the user to have none, or answers anything
VerifyRequests ==
    LET responses(method, username) ==
            {DigestResponse(digest, method, DigestParameters(username, ""), password) :
                password \in {"secret", "undefined"}} \cup {"anything"}
    IN  {[incomingMessage |-> im, method |-> "GET",
          authorization |-> [malformed |-> TRUE,
                             params |-> DigestParameters("undefined", "undefined")]] :
            im \in BOOLEAN}
        \cup
        {[incomingMessage |-> im, method |-> "GET",
          authorization |-> [malformed |-> FALSE,
                             params |-> DigestParameters(username, response)]] :
            im \in BOOLEAN, username \in {"alice", "bob"},
            response \in responses("GET", "alice") \cup responses("GET", "bob")}

\* protocol.verify(request)
VerifyDigest(request) ==
    /\ digest.constructed = "yes"
    /\ nops < MaxOps
    /\ nops' = nops + 1
    /\ last' = [op |-> "verify", request |-> request,
                result |-> DigestVerify(digest, request)]
    /\ UNCHANGED <<root, setBy, web_entity_map, router, incoming, parser, digest,
                 store, connector>>

NextDigest ==
    \/ \E params \in ConstructorParams : Construct(params)
    \/ /\ digest.constructed = "yes"
       /\ \E request \in VerifyRequests : VerifyDigest(request)

SpecDigest == InitDigest /\ [][NextDigest]_vars

(***************************************************************************)
(* Files.  A WebResource whose target is a string serves the file at the   *)
(* target, or under it at the trailing segments of the request (last).    *)
(* Paths are those of POSIX, whose separator is "/".                      *)
(***************************************************************************)
RECURSIVE Normalize(_, _)
\* the segments of a path with "." dropped, and ".." with the segment
\* before it (at the root, ".." alone); done holds the segments kept
Normalize(segs, done) ==
    IF segs = << >> THEN done
    ELSE IF Head(segs) = "." THEN Normalize(Tail(segs), done)
    ELSE IF Head(segs) = ".."
    THEN Normalize(Tail(segs),
                   IF done = << >> THEN << >> ELSE SubSeq(done, 1, Len(done) - 1))
    ELSE Normalize(Tail(segs), Append(done, Head(segs)))

\* path.resolve of an absolute path
PathResolve(path) ==
    LET segs == Normalize(SplitSegments(path, ""), << >>)
    IN  IF segs = << >> THEN "/"
        ELSE Concat([i \in 1..Len(segs) |-> "/" \o segs[i]])

\* String.prototype.startsWith
StartsWith(s, prefix) ==
    Len(s) >= Len(prefix) /\ SubSeq(s, 1, Len(prefix)) = prefix

\* the get of a file target, but a path that begins like the target passes
FileGet_PrefixOnly(norm_filepath, segments) ==
    LET target_path == IF Len(segments) > 0
                       THEN PathResolve(norm_filepath
                                \o Concat([i \in 1..Len(segments) |-> "/" \o segments[i]]))
                       ELSE norm_filepath
        forbidden == ~StartsWith(target_path, norm_filepath)
    IN  [target_path |-> target_path,
         error |-> IF forbidden THEN "ForbiddenError" ELSE "none",
         status |-> IF forbidden THEN 403 ELSE NoStatus,
         opened |-> IF forbidden THEN "none" ELSE target_path]

\* the get of a file target up to node$fs.open: the path resolved from the
\* target and the trailing segments, the ForbiddenError thrown for a path
\* that is not the target nor under it, and the path opened otherwise
FileGet(norm_filepath, segments) ==
    LET target_path == IF Len(segments) > 0
                       THEN PathResolve(norm_filepath
                                \o Concat([i \in 1..Len(segments) |-> "/" \o segments[i]]))
                       ELSE norm_filepath
        forbidden ==
            \/ ~StartsWith(target_path, norm_filepath)
            \/ /\ Len(target_path) > Len(norm_filepath)
               /\ SubSeq(target_path, Len(norm_filepath) + 1, Len(norm_filepath) + 1) # "/"
    IN  [target_path |-> target_path,
         error |-> IF forbidden THEN "ForbiddenError" ELSE "none",
         status |-> IF forbidden THEN 403 ELSE NoStatus,
         opened |-> IF forbidden THEN "none" ELSE target_path]

\* the targets of the resources, resolved
FileTargets == {"/srv/www", "/srv"}

\* the trailing segments a request may bring
TrailingSegments ==
    UNION {[1..n -> {"..", "", "a", "www2", "../srv"}] : n \in 0..MaxTrailing}

\* target.get(requestedPath, requestDescriptor) of a file target
GetFile(norm_filepath, segments) ==
    /\ nops < MaxOps
    /\ nops' = MaxOps
    /\ last' = [op |-> "get", target |-> norm_filepath, segments |-> segments,
                out |-> FileGet(norm_filepath, segments)]
    /\ UNCHANGED <<root, setBy, web_entity_map, router, incoming, parser, digest,
                 store, connector>>

NextFile ==
    \E norm_filepath \in FileTargets, segments \in TrailingSegments :
        GetFile(norm_filepath, segments)

SpecFile == InitParams /\ [][NextFile]_vars

(***************************************************************************)
(* Header values.  parseHeaderValue cuts a header value into substrings    *)
(* (quoted strings, white space, and the rest), a tokenizer cuts the rest  *)
(* at "," and "=" (and ";"), and a parser consumes the tokens one by one,  *)
(* yielding descriptors.  A descriptor is its value and its params, which  *)
(* are null (hasParams is FALSE) until the first one is set.               *)
(***************************************************************************)
RECURSIVE StringToLowerCase(_)
\* String.prototype.toLowerCase
StringToLowerCase(s) ==
    IF s = "" THEN ""
    ELSE LET UpperCaseLetters == "ABCDEFGHIJKLMNOPQRSTUVWXYZ"
             LowerCaseLetters == "abcdefghijklmnopqrstuvwxyz"
             c == Head(s)
             up == {i \in 1..26 : SubSeq(UpperCaseLetters, i, i) = c}
         IN  (IF up = {} THEN c
              ELSE LET i == CHOOSE j \in up : TRUE
                   IN  SubSeq(LowerCaseLetters, i, i))
             \o StringToLowerCase(Tail(s))

RECURSIVE SplitAtSpaces(_, _)
\* String.prototype.split(" "): empty parts are kept; word is the part read
SplitAtSpaces(s, word) ==
    IF s = "" THEN <<word>>
    ELSE IF Head(s) = " " THEN <<word>> \o SplitAtSpaces(Tail(s), "")
    ELSE SplitAtSpaces(Tail(s), word \o Head(s))

\* _isQuotedString(s)
IsQuotedString(s) ==
    Len(s) >= 2 /\ Head(s) = "\"" /\ SubSeq(s, Len(s), Len(s)) = "\""

\* is_wsp(s): the token begins with a space or a tab
IsWsp(s) == s # "" /\ Head(s) \in {" ", "\t"}

RECURSIVE Unescape(_)
\* the characters of a JSON string literal, a backslash standing for the
\* character that follows it (of the escapes, \" and \\ are in use)
Unescape(s) ==
    IF s = "" THEN ""
    ELSE IF Head(s) = "\\" /\ Len(s) >= 2
    THEN SubSeq(s, 2, 2) \o Unescape(SubSeq(s, 3, Len(s)))
    ELSE Head(s) \o Unescape(Tail(s))

\* _nextDesc()
NextDesc == [value |-> "", hasParams |-> FALSE, params |-> EmptyObject]

\* _setDescParam(desc, key, value): a key that is set already is a
\* SyntaxError; a quoted string is stored as parseJson reads it
SetDescParam(desc, key, value) ==
    IF desc.hasParams /\ key \in DOMAIN desc.params
    THEN [ok |-> FALSE, desc |-> desc]
    ELSE [ok |-> TRUE,
          desc |-> [desc EXCEPT
                      !.hasParams = TRUE,
                      !.params = (key :> (IF IsQuotedString(value)
                                          THEN Unescape(SubSeq(value, 2, Len(value) - 1))
                                          ELSE value)) @@ desc.params]]

SplitSchemeAndToken68_AsWritten(desc) ==
    LET parts == SplitAtSpaces(desc.value, "")
        with_scheme == SetDescParam(desc, "scheme", parts[1])
    IN  IF ~with_scheme.ok THEN with_scheme
        ELSE IF Len(parts) >= 2 /\ parts[2] # ""
        THEN SetDescParam(with_scheme.desc, "token68", parts[2])
        ELSE with_scheme

\* split_scheme_and_token68(desc)
SplitSchemeAndToken68(desc) ==
    LET parts == SplitAtSpaces(desc.value, "")
        scheme == parts[1]
        with_scheme == SetDescParam(desc, "scheme", StringToLowerCase(scheme))
    IN  IF ~with_scheme.ok THEN with_scheme
        ELSE IF Len(parts) >= 2 /\ parts[2] # ""
        THEN SetDescParam(with_scheme.desc, "token68", parts[2])
        ELSE with_scheme

\* the parser before its first token
ParserStart(kind) ==
    [kind |-> kind, state |-> "WAIT_VALUE", desc |-> NextDesc, buf |-> << >>,
     yielded |-> << >>, error |-> "none", fed |-> 0, ended |-> FALSE]

\* one turn of the loop of _parseCredentialsListHeader: buf is
\* token68_or_param, yielded the descriptors this turn yields
CredentialsStep(p, token) ==
    LET desc == p.desc
        buf == p.buf
        q == [p EXCEPT !.yielded = << >>, !.fed = @ + 1]
        Err == [q EXCEPT !.error = "SyntaxError"]
        Go(st) == [q EXCEPT !.state = st]
        Push(st) == [q EXCEPT !.state = st, !.buf = Append(buf, token)]
        flushed == [desc EXCEPT !.value = @ \o " " \o Concat(buf)]
        \* yield split_scheme_and_token68(d), and again for the descriptor
        \* made of the tokens kept when both is TRUE
        Yield(d, both, b, st) ==
            LET first == SplitSchemeAndToken68(d)
                second == SplitSchemeAndToken68([NextDesc EXCEPT !.value = Concat(buf)])
            IN  IF ~first.ok THEN Err
                ELSE IF both /\ ~second.ok
                THEN [Err EXCEPT !.yielded = <<first.desc>>]
                ELSE [q EXCEPT !.state = st, !.desc = NextDesc, !.buf = b,
                               !.yielded = IF both THEN <<first.desc, second.desc>>
                                           ELSE <<first.desc>>]
        SetParam(st) ==
            LET r == SetDescParam(desc, buf[1], token)
            IN  IF r.ok THEN [q EXCEPT !.state = st, !.desc = r.desc, !.buf = << >>]
                ELSE Err
        eq == token = "="
        comma == token = ","
        quoted == IsQuotedString(token)
        wsp == IsWsp(token)
    IN
    CASE p.state = "WAIT_VALUE" ->
            IF eq \/ comma \/ quoted THEN Err
            ELSE IF wsp THEN q
            ELSE [q EXCEPT !.state = "WAIT_SPACE", !.desc.value = token]
      [] p.state = "WAIT_SPACE" ->
            IF wsp THEN Go("WAIT_TOKEN68_OR_PARAM_NAME")
            ELSE IF comma THEN Yield(desc, FALSE, buf, "WAIT_VALUE")
            ELSE Err
      [] p.state = "WAIT_TOKEN68_OR_PARAM_NAME" ->
            IF eq \/ quoted THEN Err
            ELSE IF wsp THEN q
            ELSE IF comma THEN Yield(desc, FALSE, buf, "WAIT_VALUE")
            ELSE Push("WAIT_PADDING_OR_PARAM_KV_SEP")
      [] p.state = "WAIT_PADDING_OR_PARAM_KV_SEP" ->
            IF eq THEN Push("WAIT_PADDING_OR_PARAM_VALUE")
            ELSE IF comma
            THEN Yield(IF Len(buf) > 0 THEN flushed ELSE desc, FALSE, << >>, "WAIT_VALUE")
            ELSE IF wsp THEN Go("WAIT_PARAM_KV_SEP")
            ELSE Err
      [] p.state = "WAIT_PADDING_OR_PARAM_VALUE" ->
            IF eq THEN Push("WAIT_PADDING")
            ELSE IF comma
            THEN Yield(IF Len(buf) > 0 THEN flushed ELSE desc, FALSE, << >>, "WAIT_VALUE")
            ELSE IF wsp
            THEN [q EXCEPT !.state = "WAIT_VALUE_SEP",
                           !.desc = IF Len(buf) > 0 THEN flushed ELSE desc,
                           !.buf = << >>]
            ELSE SetParam("WAIT_VALUE_SEP")
      [] p.state = "WAIT_PADDING" ->
            IF eq THEN Push("WAIT_PADDING")
            ELSE IF comma THEN Yield(flushed, FALSE, << >>, "WAIT_VALUE")
            ELSE IF wsp
            THEN [q EXCEPT !.state = "WAIT_VALUE_SEP", !.desc = flushed, !.buf = << >>]
            ELSE Err
      [] p.state = "WAIT_PARAM_KV_SEP" ->
            IF eq THEN Push("WAIT_PARAM_VALUE")
            ELSE IF comma
            THEN IF desc.hasParams THEN Yield(desc, TRUE, << >>, "WAIT_VALUE")
                 ELSE Yield(flushed, FALSE, << >>, "WAIT_VALUE")
            ELSE IF wsp THEN q
            ELSE Err
      [] p.state = "WAIT_PARAM_VALUE" ->
            IF eq \/ comma THEN Err
            ELSE IF wsp THEN q
            ELSE SetParam("WAIT_VALUE_SEP")
      [] p.state = "WAIT_VALUE_SEP" ->
            IF comma
            THEN IF desc.hasParams THEN Go("WAIT_VALUE_OR_PARAM")
                 ELSE Yield(flushed, FALSE, << >>, "WAIT_VALUE")
            ELSE IF wsp THEN q
            ELSE Err
      [] p.state = "WAIT_VALUE_OR_PARAM" ->
            IF eq \/ comma \/ quoted THEN Err
            ELSE IF wsp THEN q
            ELSE Push("WAIT_SPACE_OR_KV_SEP")
      [] p.state = "WAIT_SPACE_OR_KV_SEP" ->
            IF eq THEN Go("WAIT_PARAM_VALUE")
            ELSE IF comma THEN Yield(desc, FALSE, buf, "WAIT_VALUE")
            ELSE IF wsp THEN Go("WAIT_TOKEN68_OR_KV_SEP")
            ELSE Err
      [] p.state = "WAIT_TOKEN68_OR_KV_SEP" ->
            IF comma \/ quoted THEN Err
            ELSE IF eq THEN Go("WAIT_PARAM_VALUE")
            ELSE IF wsp THEN q
            ELSE LET first == SplitSchemeAndToken68(desc)
                 IN  IF ~first.ok THEN Err
                     ELSE [q EXCEPT !.state = "WAIT_PADDING_OR_PARAM_KV_SEP",
                                    !.desc = [NextDesc EXCEPT !.value = Concat(buf)],
                                    !.buf = <<token>>,
                                    !.yielded = <<first.desc>>]

\* _parseCredentialsListHeader after its loop: the switch on the state the
\* input ends in
CredentialsEnd(p) ==
    LET desc == p.desc
        buf == p.buf
        q == [p EXCEPT !.yielded = << >>, !.ended = TRUE]
        Err == [q EXCEPT !.error = "SyntaxError"]
        flushed == [desc EXCEPT !.value = @ \o " " \o Concat(buf)]
        Yield(d, both) ==
            LET first == SplitSchemeAndToken68(d)
                second == SplitSchemeAndToken68([NextDesc EXCEPT !.value = Concat(buf)])
            IN  IF ~first.ok THEN Err
                ELSE IF both /\ ~second.ok
                THEN [Err EXCEPT !.yielded = <<first.desc>>]
                ELSE [q EXCEPT !.buf = IF both THEN << >> ELSE buf,
                               !.yielded = IF both THEN <<first.desc, second.desc>>
                                           ELSE <<first.desc>>]
    IN
    CASE p.state \in {"WAIT_VALUE", "WAIT_VALUE_OR_PARAM", "WAIT_PARAM_VALUE"} -> Err
      [] p.state \in {"WAIT_SPACE", "WAIT_TOKEN68_OR_PARAM_NAME"} -> Yield(desc, FALSE)
      [] p.state \in {"WAIT_PADDING_OR_PARAM_KV_SEP", "WAIT_PADDING_OR_PARAM_VALUE",
                      "WAIT_PADDING"} ->
            [Yield(flushed, FALSE) EXCEPT !.buf = << >>]
      [] p.state = "WAIT_PARAM_KV_SEP" ->
            IF desc.hasParams THEN Yield(desc, TRUE)
            ELSE [Yield(flushed, FALSE) EXCEPT !.buf = << >>]
      [] p.state = "WAIT_VALUE_SEP" ->
            IF desc.hasParams THEN Yield(desc, FALSE)
            ELSE [Yield(flushed, FALSE) EXCEPT !.buf = << >>]
      [] p.state \in {"WAIT_SPACE_OR_KV_SEP", "WAIT_TOKEN68_OR_KV_SEP"} ->
            Yield(desc, TRUE)

\* the tokens _tokenizeCredentialsList yields
CredentialsTokens == {"=", ",", " ", "\"q\\\"r\"", "Basic", "Realm", "abc"}

InitCredentials ==
    /\ root = EmptyMap
    /\ setBy = << >>
    /\ web_entity_map = EmptyMap
    /\ router = DefaultOptions
    /\ last = NoCall
    /\ nops = 0
    /\ incoming = NoIncoming
    /\ parser = ParserStart("credentials")
    /\ digest = NoDigest
    /\ store = NoStore
    /\ connector = NoConnector

\* a run of white space is one token, and so is a run of the characters
\* that are neither delimiters nor white space: no two of a kind in a row
TokenKind(token) ==
    IF token \in {"=", ",", ";"} THEN token
    ELSE IF IsQuotedString(token) THEN "quoted"
    ELSE IF IsWsp(token) THEN "wsp"
    ELSE "rest"
Follows(token) ==
    last.op = "token" /\ TokenKind(token) \in {"wsp", "rest"}
        => TokenKind(last.token) # TokenKind(token)

\* the parser takes the next token of the header value
CredentialsToken(token) ==
    /\ parser.fed < MaxTokens /\ parser.error = "none" /\ ~parser.ended
    /\ Follows(token)
    /\ parser' = CredentialsStep(parser, token)
    /\ last' = [op |-> "token", token |-> token]
    /\ UNCHANGED <<root, setBy, web_entity_map, router, nops, incoming, digest,
                 store, connector>>

\* the header value ends
CredentialsEnded ==
    /\ parser.error = "none" /\ ~parser.ended
    /\ parser' = CredentialsEnd(parser)
    /\ last' = [op |-> "end"]
    /\ UNCHANGED <<root, setBy, web_entity_map, router, nops, incoming, digest,
                 store, connector>>

NextCredentials ==
    \/ \E token \in CredentialsTokens : CredentialsToken(token)
    \/ CredentialsEnded

SpecCredentials == InitCredentials /\ [][NextCredentials]_vars

\* the transitions the comments on the states of _parseGenericHeaderValue
\* document: from a state, on a kind of token ("end" at the end of the
\* input), with len(buf) value fragments or count(token-frag) fragments of
\* a parameter value kept, the parser fails (error), or moves to next and
\* yields a descriptor when parsed is TRUE
DocumentedTransition(state, kind, count) ==
    LET Error == [error |-> TRUE, next |-> state, parsed |-> FALSE]
        To(st) == [error |-> FALSE, next |-> st, parsed |-> FALSE]
        Parsed(st) == [error |-> FALSE, next |-> st, parsed |-> TRUE]
    IN
    CASE state = "WAIT_VALUE" ->
            (CASE kind = "=" -> To("WAIT_VALUE")
              [] kind = ";" -> IF count > 0 THEN To("WAIT_PARAM_NAME") ELSE Error
              [] kind = "," -> IF count > 0 THEN Parsed("WAIT_VALUE") ELSE Error
              [] kind = "wsp" -> To("WAIT_VALUE")
              [] kind = "rest" -> To("WAIT_VALUE")
              [] kind = "quoted" -> To("WAIT_VALUE")
              [] kind = "end" -> IF count > 0 THEN Parsed("WAIT_VALUE") ELSE Error)
      [] state = "WAIT_PARAM_NAME" ->
            (CASE kind = "wsp" -> To("WAIT_PARAM_NAME")
              [] kind = "rest" -> To("WAIT_PARAM_KV_SEP")
              [] OTHER -> Error)
      [] state = "WAIT_PARAM_KV_SEP" ->
            IF kind = "=" THEN To("WAIT_PARAM_VALUE") ELSE Error
      [] state = "WAIT_PARAM_VALUE" ->
            (CASE kind = "=" -> To("WAIT_PARAM_VALUE")
              [] kind = ";" -> IF count > 0 THEN To("WAIT_PARAM_NAME") ELSE Error
              [] kind = "," -> IF count > 0 THEN Parsed("WAIT_VALUE") ELSE Error
              [] kind = "wsp" ->
                    IF count > 0 THEN To("WAIT_VALUE_SEP_OR_PARAM_SEP") ELSE Error
              [] kind = "rest" -> To("WAIT_PARAM_VALUE")
              [] kind = "quoted" ->
                    IF count > 0 THEN Error ELSE To("WAIT_VALUE_SEP_OR_PARAM_SEP")
              [] kind = "end" -> IF count > 0 THEN Parsed("WAIT_PARAM_VALUE") ELSE Error)
      [] state = "WAIT_VALUE_SEP_OR_PARAM_SEP" ->
            (CASE kind = ";" -> To("WAIT_PARAM_NAME")
              [] kind = "," -> Parsed("WAIT_VALUE")
              [] kind = "wsp" -> To("WAIT_VALUE_SEP_OR_PARAM_SEP")
              [] kind = "end" -> Parsed("WAIT_VALUE_SEP_OR_PARAM_SEP")
              [] OTHER -> Error)

\* the value of a descriptor: the fragments kept up to the last one that
\* is not white space, joined
FieldValue(token_frags) ==
    LET solid == {i \in 1..Len(token_frags) : ~IsWsp(token_frags[i])}
        n == IF solid = {} THEN 0 ELSE CHOOSE i \in solid : \A j \in solid : j <= i
    IN  Concat(SubSeq(token_frags, 1, n))

\* one turn of the loop of _parseGenericHeaderValue: buf is token_frags
GenericStep(p, token) ==
    LET desc == p.desc
        buf == p.buf
        q == [p EXCEPT !.yielded = << >>, !.fed = @ + 1]
        Err == [q EXCEPT !.error = "SyntaxError"]
        Push == [q EXCEPT !.buf = Append(buf, token)]
        \* the parameter kept is set: its name lowercased, its value v
        SetParam(v, st, yields) ==
            LET r == SetDescParam(desc, StringToLowerCase(buf[1]), v)
            IN  IF ~r.ok THEN Err
                ELSE [q EXCEPT !.state = st, !.buf = << >>,
                               !.desc = IF yields THEN NextDesc ELSE r.desc,
                               !.yielded = IF yields THEN <<r.desc>> ELSE << >>]
        joined == Concat(SubSeq(buf, 2, Len(buf)))
        wsp == IsWsp(token)
        quoted == IsQuotedString(token)
    IN
    CASE p.state = "WAIT_VALUE" ->
            IF token = "=" THEN Push
            ELSE IF token = ";"
            THEN IF Len(buf) = 0 THEN Err
                 ELSE [q EXCEPT !.state = "WAIT_PARAM_NAME", !.buf = << >>,
                                !.desc.value = FieldValue(buf)]
            ELSE IF token = ","
            THEN IF Len(buf) = 0 THEN Err
                 ELSE [q EXCEPT !.buf = << >>, !.desc = NextDesc,
                                !.yielded = <<[desc EXCEPT !.value = FieldValue(buf)]>>]
            ELSE IF wsp THEN (IF Len(buf) > 0 THEN Push ELSE q)
            ELSE Push
      [] p.state = "WAIT_PARAM_NAME" ->
            IF token \in {"=", ";", ","} \/ quoted THEN Err
            ELSE IF wsp THEN q
            ELSE [Push EXCEPT !.state = "WAIT_PARAM_KV_SEP"]
      [] p.state = "WAIT_PARAM_KV_SEP" ->
            IF token = "=" THEN [q EXCEPT !.state = "WAIT_PARAM_VALUE"] ELSE Err
      [] p.state = "WAIT_PARAM_VALUE" ->
            IF token = "=" THEN Push
            ELSE IF token = ";"
            THEN IF Len(buf) <= 1 THEN Err ELSE SetParam(joined, "WAIT_PARAM_NAME", FALSE)
            ELSE IF token = ","
            THEN IF Len(buf) <= 1 THEN Err ELSE SetParam(joined, "WAIT_VALUE", TRUE)
            ELSE IF wsp
            THEN IF Len(buf) <= 1 THEN Err
                 ELSE SetParam(joined, "WAIT_VALUE_SEP_OR_PARAM_SEP", FALSE)
            ELSE IF quoted
            THEN IF Len(buf) >= 2 THEN Err
                 ELSE SetParam(token, "WAIT_VALUE_SEP_OR_PARAM_SEP", FALSE)
            ELSE Push
      [] p.state = "WAIT_VALUE_SEP_OR_PARAM_SEP" ->
            IF token = ";" THEN [q EXCEPT !.state = "WAIT_PARAM_NAME"]
            ELSE IF token = ","
            THEN [q EXCEPT !.state = "WAIT_VALUE", !.desc = NextDesc,
                           !.yielded = <<desc>>]
            ELSE IF wsp THEN q
            ELSE Err

\* _parseGenericHeaderValue after its loop.  The message of the error for
\* an empty value reads token, a constant of the loop that is out of scope
\* there: evaluating it throws a ReferenceError in place of the SyntaxError
GenericEnd(p) ==
    LET desc == p.desc
        buf == p.buf
        q == [p EXCEPT !.yielded = << >>, !.ended = TRUE]
    IN
    CASE p.state = "WAIT_VALUE" ->
            IF Len(buf) = 0 THEN [q EXCEPT !.error = "ReferenceError"]
            ELSE [q EXCEPT !.buf = << >>,
                           !.yielded = <<[desc EXCEPT !.value = FieldValue(buf)]>>]
      [] p.state \in {"WAIT_PARAM_NAME", "WAIT_PARAM_KV_SEP"} ->
            [q EXCEPT !.error = "SyntaxError"]
      [] p.state = "WAIT_PARAM_VALUE" ->
            IF Len(buf) <= 1 THEN [q EXCEPT !.error = "SyntaxError"]
            ELSE LET r == SetDescParam(desc, StringToLowerCase(buf[1]),
                                       Concat(SubSeq(buf, 2, Len(buf))))
                 IN  IF ~r.ok THEN [q EXCEPT !.error = "SyntaxError"]
                     ELSE [q EXCEPT !.buf = << >>, !.desc = r.desc,
                                    !.yielded = <<r.desc>>]
      [] p.state = "WAIT_VALUE_SEP_OR_PARAM_SEP" -> [q EXCEPT !.yielded = <<desc>>]

\* the tokens _tokenizeGenericHeaderValue yields
GenericTokens == {"=", ";", ",", " ", "\"q\\\"r\"", "B"}

InitGeneric ==
    /\ root = EmptyMap
    /\ setBy = << >>
    /\ web_entity_map = EmptyMap
    /\ router = DefaultOptions
    /\ last = NoCall
    /\ nops = 0
    /\ incoming = NoIncoming
    /\ parser = ParserStart("generic")
    /\ digest = NoDigest
    /\ store = NoStore
    /\ connector = NoConnector

\* the parser takes the next token of the header value
GenericToken(token) ==
    /\ parser.fed < MaxTokens /\ parser.error = "none" /\ ~parser.ended
    /\ Follows(token)
    /\ parser' = GenericStep(parser, token)
    /\ last' = [op |-> "token", token |-> token]
    /\ UNCHANGED <<root, setBy, web_entity_map, router, nops, incoming, digest,
                 store, connector>>

\* the header value ends
GenericEnded ==
    /\ parser.error = "none" /\ ~parser.ended
    /\ parser' = GenericEnd(parser)
    /\ last' = [op |-> "end"]
    /\ UNCHANGED <<root, setBy, web_entity_map, router, nops, incoming, digest,
                 store, connector>>

NextGeneric ==
    \/ \E token \in GenericTokens : GenericToken(token)
    \/ GenericEnded

SpecGeneric == InitGeneric /\ [][NextGeneric]_vars

(***************************************************************************)
(* Content negotiation.  A content type is a string main/sub; q-values are *)
(* counted in tenths (q = 0.5 is 5).  #allowed_content_types is a Map of   *)
(* Sets, both in insertion order: a sequence of [main, subs].              *)
(***************************************************************************)
\* Number(qs) for the strings a q parameter is written as, in tenths;
\* nan for the string that is not a number
NumberOf(qs) ==
    CASE qs = "1" -> [nan |-> FALSE, tenths |-> 10]
      [] qs = "0.5" -> [nan |-> FALSE, tenths |-> 5]
      [] qs = "2" -> [nan |-> FALSE, tenths |-> 20]
      [] qs = "-1" -> [nan |-> FALSE, tenths |-> -10]
      [] OTHER -> [nan |-> TRUE, tenths |-> 0]

\* the two parts of a content type, lowercased; isContentType is FALSE for
\* a string that is not token/token
SplitType(content_type) == SplitSegments(StringToLowerCase(content_type), "")
\* the content types the resources and the requests are written with, and
\* their parts, computed once
TypesInUse ==
    {"text/html", "text/plain", "image/png", "*/*", "IMAGE/*", "application/json",
     "bad"}
PartsInUse == [content_type \in TypesInUse |-> SplitType(content_type)]
TypeParts(content_type) == PartsInUse[content_type]
IsContentType(content_type) ==
    Len(TypeParts(content_type)) = 2 /\ TrailingSlashes(content_type) = 0

\* the WebResource constructor: #content_type, #uses_wildcard and
\* #allowed_content_types of a resource with the default type contentType
\* and the allowedContentTypes given
WebResourceTypes(contentType, allowedContentTypes) ==
    LET parts == TypeParts(contentType)
        uses_wildcard == parts[1] = "*" \/ parts[2] = "*"
        Add(allowed, content_type) ==
            LET main_type == TypeParts(content_type)[1]
                sub_type == TypeParts(content_type)[2]
                at == {i \in 1..Len(allowed) : allowed[i].main = main_type}
            IN  IF at = {}
                THEN Append(allowed, [main |-> main_type, subs |-> <<sub_type>>])
                ELSE [i \in 1..Len(allowed) |->
                        IF i \in at /\ \A j \in 1..Len(allowed[i].subs) :
                                            allowed[i].subs[j] # sub_type
                        THEN [allowed[i] EXCEPT !.subs = Append(@, sub_type)]
                        ELSE allowed[i]]
        first == IF uses_wildcard THEN << >>
                 ELSE <<[main |-> parts[1], subs |-> <<parts[2]>>]>>
        one == IF Len(allowedContentTypes) >= 1
               THEN Add(first, allowedContentTypes[1]) ELSE first
        two == IF Len(allowedContentTypes) >= 2
               THEN Add(one, allowedContentTypes[2]) ELSE one
    IN  [contentType |-> contentType, uses_wildcard |-> uses_wildcard,
         allowed_content_types |-> two]

\* WebResource.getAllowedType(contentType): [defined, type]
GetAllowedType(resource, contentType) ==
    LET allowed == resource.allowed_content_types
        none == [defined |-> FALSE, type |-> ""]
        Some(t) == [defined |-> TRUE, type |-> t]
        main_type == TypeParts(contentType)[1]
        sub_type == TypeParts(contentType)[2]
        Has(subs, sub) == \E j \in 1..Len(subs) : subs[j] = sub
        with_sub == {i \in 1..Len(allowed) : Has(allowed[i].subs, sub_type)}
        of_main == {i \in 1..Len(allowed) : allowed[i].main = main_type}
    IN  IF ~IsContentType(contentType) THEN none
        ELSE IF main_type = "*" /\ sub_type = "*"
        THEN IF resource.uses_wildcard THEN none ELSE Some(resource.contentType)
        ELSE IF main_type = "*"
        THEN IF with_sub = {} THEN none
             ELSE LET i == CHOOSE k \in with_sub : \A l \in with_sub : k <= l
                  IN  Some(allowed[i].main \o "/" \o sub_type)
        ELSE IF sub_type = "*"
        THEN IF of_main = {} THEN none
             ELSE LET i == CHOOSE k \in of_main : TRUE
                  IN  Some(main_type \o "/" \o allowed[i].subs[1])
        ELSE IF \E i \in of_main : Has(allowed[i].subs, sub_type)
        THEN Some(main_type \o "/" \o sub_type)
        ELSE none

\* WebResource.get, lines 160-169: the weight of an accepted type
QValue(accepted_type) ==
    LET q == NumberOf(IF accepted_type.q = "undefined" THEN "1" ELSE accepted_type.q)
    IN  IF q.nan THEN 0
        ELSE IF q.tenths < 0 THEN 0
        ELSE IF q.tenths > 10 THEN 10
        ELSE q.tenths

RECURSIVE SortByQ_TiesReversed(_)
SortByQ_TiesReversed(accepted_types) ==
    IF accepted_types = << >> THEN << >>
    ELSE LET rest == SortByQ_TiesReversed(Tail(accepted_types))
             x == Head(accepted_types)
             before == {i \in 1..Len(rest) : rest[i].q >= x.q}
         IN  SubSeq(rest, 1, Cardinality(before)) \o <<x>>
             \o SubSeq(rest, Cardinality(before) + 1, Len(rest))

RECURSIVE SortByQ(_)
\* accepted_types.sort(([x,], [y,]) => ((x < y) - (x > y))): descending q,
\* the sort of an Array being stable
SortByQ(accepted_types) ==
    IF accepted_types = << >> THEN << >>
    ELSE LET rest == SortByQ(Tail(accepted_types))
             x == Head(accepted_types)
             before == {i \in 1..Len(rest) : rest[i].q > x.q}
         IN  SubSeq(rest, 1, Cardinality(before)) \o <<x>>
             \o SubSeq(rest, Cardinality(before) + 1, Len(rest))

\* WebResource.get, lines 152-195: the content type the resource is got as,
\* or the UnsupportedMediaTypeError thrown; candidates are the types of the
\* extension of the path
NegotiateType(resource, acceptedTypes, candidates) ==
    LET given == [i \in 1..Len(acceptedTypes) |->
                    [q |-> QValue(acceptedTypes[i]), type |-> acceptedTypes[i].value]]
        accepted_types ==
            SortByQ(IF Len(given) <= 0 /\ ~resource.uses_wildcard
                    THEN <<[q |-> 10, type |-> resource.contentType]>>
                    ELSE given)
        allowed == [i \in 1..Len(accepted_types) |->
                        GetAllowedType(resource, accepted_types[i].type)]
        found == {i \in 1..Len(accepted_types) : allowed[i].defined}
        main_type == TypeParts(resource.contentType)[1]
        fitting == {i \in 1..Len(candidates) :
                        main_type = "*" \/ TypeParts(candidates[i])[1] = main_type}
        Ok(t) == [error |-> "none", status |-> NoStatus, contentType |-> t,
                  unsupported_types |-> << >>]
    IN  IF found # {}
        THEN Ok(allowed[CHOOSE i \in found : \A j \in found : i <= j].type)
        ELSE IF resource.uses_wildcard /\ fitting # {}
        THEN Ok(candidates[CHOOSE i \in fitting : \A j \in fitting : i <= j])
        ELSE [error |-> "UnsupportedMediaTypeError", status |-> 415,
              contentType |-> "",
              unsupported_types |-> [i \in 1..Len(accepted_types) |->
                                        accepted_types[i].type]]

\* the resources: one of a default type with more types allowed, one of a
\* wildcard default type
Resources ==
    {WebResourceTypes("text/html", <<"text/plain", "image/png">>),
     WebResourceTypes("*/*", <<"image/png">>)}

\* the descriptors of an Accept header, q being "undefined" when the type
\* has no q parameter
AcceptedTypes ==
    [value : TypesInUse \ {"text/html", "image/png"},
     q : {"undefined", "0.5", "abc", "2", "-1"}]

\* resource.get(path, ...acceptedTypes) up to the choice of the type
GetResource(resource, acceptedTypes, candidates) ==
    /\ nops < MaxOps
    /\ nops' = MaxOps
    /\ last' = [op |-> "negotiate", resource |-> resource,
                acceptedTypes |-> acceptedTypes,
                out |-> NegotiateType(resource, acceptedTypes, candidates)]
    /\ UNCHANGED <<root, setBy, web_entity_map, router, incoming, parser, digest,
                 store, connector>>

NextAccept ==
    /\ nops < MaxOps
    /\ \E resource \in Resources,
          acceptedTypes \in UNION {[1..n -> AcceptedTypes] : n \in 0..MaxAccept},
          candidates \in {<< >>, <<"image/png">>} :
            /\ (~resource.uses_wildcard => candidates = << >>)
            /\ GetResource(resource, acceptedTypes, candidates)

SpecAccept == InitParams /\ [][NextAccept]_vars

(***************************************************************************)
(* Credential stores.  _store is a function from the keys it has to their  *)
(* values; a value is undefined, null or an object, and an object is a     *)
(* function from its member names to strings or null.                      *)
(***************************************************************************)
NoValue == [kind |-> "undefined", members |-> EmptyObject]
NullValue == [kind |-> "null", members |-> EmptyObject]
ObjectValue(members) == [kind |-> "object", members |-> members]
\* value == null
IsNullish(value) == value.kind \in {"undefined", "null"}
\* a member that holds null
NullMember == "null"

\* structuredMerge(target, source, allowNewKey): threw, or the merged value
StructuredMerge(target, source, allowNewKey) ==
    IF IsNullish(source) THEN [threw |-> TRUE, value |-> NoValue]
    ELSE IF IsNullish(target) THEN [threw |-> FALSE, value |-> source]
    ELSE IF \E key \in DOMAIN source.members :
                \/ ~allowNewKey /\ key \notin DOMAIN target.members
                \/ source.members[key] = NullMember
    THEN [threw |-> TRUE, value |-> NoValue]
    ELSE [threw |-> FALSE,
          value |-> ObjectValue(
            [key \in DOMAIN target.members \cup DOMAIN source.members |->
                IF key \in DOMAIN source.members THEN source.members[key]
                ELSE target.members[key]])]

\* deleteNestedObject(obj, projection) for an object and a projection that
\* is an object: a member of the projection is true, null or false
DeleteNestedObject(obj, projection) ==
    IF \E projKey \in DOMAIN projection.members : projKey \notin DOMAIN obj.members
    THEN [threw |-> TRUE, value |-> NoValue]
    ELSE [threw |-> FALSE,
          value |-> ObjectValue(
            [key \in {k \in DOMAIN obj.members :
                        ~(k \in DOMAIN projection.members
                            /\ projection.members[k] = "true")} |->
                IF key \in DOMAIN projection.members
                    /\ projection.members[key] = NullMember
                THEN NullMember ELSE obj.members[key]])]

\* Map.prototype.set and Map.prototype.delete on _store
StoreSet(mem, key, value) == (key :> value) @@ mem
StoreWithout(mem, key) == [k \in DOMAIN mem \ {key} |-> mem[k]]

\* InMemoryCredentialStore.signup, remove, update and delete: what the call
\* returns and _store afterwards
Signup(mem, key, value) ==
    IF key \in DOMAIN mem THEN [result |-> FALSE, mem |-> mem]
    ELSE [result |-> TRUE, mem |-> StoreSet(mem, key, value)]

Remove(mem, key) ==
    [result |-> key \in DOMAIN mem, mem |-> StoreWithout(mem, key)]

Update(mem, key, value, allowNewKey) ==
    IF key \notin DOMAIN mem THEN [result |-> FALSE, mem |-> mem]
    ELSE IF IsNullish(value) THEN [result |-> FALSE, mem |-> mem]
    ELSE LET merged == StructuredMerge(mem[key], value, allowNewKey)
         IN  IF merged.threw THEN [result |-> FALSE, mem |-> mem]
             ELSE [result |-> TRUE, mem |-> StoreSet(mem, key, merged.value)]

Delete(mem, key, projection) ==
    IF IsNullish(projection)
    THEN [result |-> TRUE, mem |-> StoreSet(mem, key, NullValue)]
    ELSE LET data == IF key \in DOMAIN mem THEN mem[key] ELSE NoValue
         IN  IF IsNullish(data) THEN [result |-> FALSE, mem |-> mem]
             ELSE LET newData == DeleteNestedObject(data, projection)
                  IN  IF newData.threw THEN [result |-> FALSE, mem |-> mem]
                      ELSE [result |-> TRUE,
                            mem |-> StoreSet(mem, key, newData.value)]

\* a call of one of the four
StoreCall(op, key, value, allowNewKey) ==
    [op |-> op, key |-> key, value |-> value, allowNewKey |-> allowNewKey]

Apply(mem, call) ==
    CASE call.op = "signup" -> Signup(mem, call.key, call.value)
      [] call.op = "remove" -> Remove(mem, call.key)
      [] call.op = "update" -> Update(mem, call.key, call.value, call.allowNewKey)
      [] call.op = "delete" -> Delete(mem, call.key, call.value)

\* the keys, values and projections the stores are called with
StoreKeys == {"u1", "u2"}
MemberNames == {"pw", "role"}
ObjectsOf(values) ==
    {ObjectValue(members) :
        members \in UNION {[names -> values] : names \in SUBSET MemberNames}}
StoreCalls ==
    {StoreCall("signup", key, value, FALSE) :
        key \in StoreKeys,
        value \in {NoValue, NullValue} \cup ObjectsOf({"x", NullMember})}
    \cup {StoreCall("remove", key, NoValue, FALSE) : key \in StoreKeys}
    \cup {StoreCall("update", key, value, allowNewKey) :
            key \in StoreKeys,
            value \in {NullValue} \cup ObjectsOf({"y", NullMember}),
            allowNewKey \in BOOLEAN}
    \cup {StoreCall("delete", key, projection, FALSE) :
            key \in StoreKeys,
            projection \in {NoValue, NullValue} \cup ObjectsOf({"true", NullMember})}

InitStore ==
    /\ root = EmptyMap
    /\ setBy = << >>
    /\ web_entity_map = EmptyMap
    /\ router = DefaultOptions
    /\ last = NoCall
    /\ nops = 0
    /\ incoming = NoIncoming
    /\ parser = NoParser
    /\ digest = NoDigest
    /\ store = [kind |-> "inmemory", mem |-> EmptyObject]
    /\ connector = NoConnector

\* a call on an InMemoryCredentialStore
CallStore(call) ==
    /\ nops < MaxOps
    /\ nops' = nops + 1
    /\ store' = [store EXCEPT !.mem = Apply(store.mem, call).mem]
    /\ last' = [op |-> "store", call |-> call,
                result |-> Apply(store.mem, call).result]
    /\ UNCHANGED <<root, setBy, web_entity_map, router, incoming, parser,
                   digest, connector>>

NextStore == nops < MaxOps /\ \E call \in StoreCalls : CallStore(call)

SpecStore == InitStore /\ [][NextStore]_vars

(***************************************************************************)
(* JsonCachedCredentialStore: every call that changed _store writes the    *)
(* whole store to the file.  A call is "called" once the method of the     *)
(* super class has returned, "writing" once #saveMem has made the contents *)
(* and asked for the write, "loading" once the write has failed, and       *)
(* "returned" or "rejected" at its end.  The writes asked for end in any   *)
(* order.                                                                  *)
(***************************************************************************)
\* JSON.stringify(store, replacerMap, 2), read back by JSON.parse: a key
\* whose value is undefined is not written
Stringify(mem) == [key \in {k \in DOMAIN mem : mem[k].kind # "undefined"} |-> mem[key]]

JsonStoreCalls ==
    {StoreCall("signup", key, value, FALSE) :
        key \in StoreKeys, value \in {NoValue, ObjectValue([pw |-> "x"])}}
    \cup {StoreCall("remove", key, NoValue, FALSE) : key \in StoreKeys}
    \cup {StoreCall("update", key, ObjectValue([pw |-> "y"]), TRUE) : key \in StoreKeys}
    \cup {StoreCall("delete", key, projection, FALSE) :
            key \in StoreKeys,
            projection \in {NullValue, ObjectValue([pw |-> "true"])}}

\* the store after its constructor: the file does not exist, or it holds a
\* store (an empty one here) that the constructor has read
InitJsonStore ==
    /\ root = EmptyMap
    /\ setBy = << >>
    /\ web_entity_map = EmptyMap
    /\ router = DefaultOptions
    /\ last = NoCall
    /\ nops = 0
    /\ incoming = NoIncoming
    /\ parser = NoParser
    /\ digest = NoDigest
    /\ store \in [kind : {"jsoncached"}, mem : {EmptyObject}, file : {EmptyObject},
                   exists : BOOLEAN, calls : {<< >>}]
    /\ connector = NoConnector

\* the store is called: the method of InMemoryCredentialStore runs at once;
\* a call it answers with false returns false
JsonCall(call) ==
    /\ Len(store.calls) < MaxCalls
    /\ LET super == Apply(store.mem, call)
       IN  store' = [store EXCEPT
                !.mem = super.mem,
                !.calls = Append(@, [call |-> call,
                                     state |-> IF super.result THEN "called"
                                               ELSE "returned",
                                     result |-> super.result,
                                     contents |-> EmptyObject])]
    /\ last' = [op |-> "call", call |-> call]
    /\ UNCHANGED <<root, setBy, web_entity_map, router, nops, incoming, parser,
                   digest, connector>>

\* #saveMem, lines 729-731: the contents are those of _store when the call
\* goes on after its await, which calls do in the order they were made
SaveMem(i) ==
    /\ store.calls[i].state = "called"
    /\ \A j \in 1..(i - 1) : store.calls[j].state # "called"
    /\ store' = [store EXCEPT !.calls[i].state = "writing",
                              !.calls[i].contents = Stringify(store.mem)]
    /\ last' = [op |-> "saveMem", index |-> i]
    /\ UNCHANGED <<root, setBy, web_entity_map, router, nops, incoming, parser,
                   digest, connector>>

\* fsPromises.writeFile resolves: the file holds the contents, the call
\* returns true
WriteFileResolves(i) ==
    /\ store.calls[i].state = "writing"
    /\ store' = [store EXCEPT !.file = store.calls[i].contents,
                              !.exists = TRUE,
                              !.calls[i].state = "returned"]
    /\ last' = [op |-> "written", index |-> i]
    /\ UNCHANGED <<root, setBy, web_entity_map, router, nops, incoming, parser,
                   digest, connector>>

\* fsPromises.writeFile rejects (the file is taken to be left as it was)
WriteFileRejects(i) ==
    /\ store.calls[i].state = "writing"
    /\ store' = [store EXCEPT !.calls[i].state = "loading"]
    /\ last' = [op |-> "write failed", index |-> i]
    /\ UNCHANGED <<root, setBy, web_entity_map, router, nops, incoming, parser,
                   digest, connector>>

\* #loadFile in the catch clause: _store becomes what the file holds and
\* the call returns false; readFile rejects, and the call with it, when
\* there is no file
LoadFile(i) ==
    /\ store.calls[i].state = "loading"
    /\ store' = IF store.exists
                THEN [store EXCEPT !.mem = store.file,
                                   !.calls[i].state = "returned",
                                   !.calls[i].result = FALSE]
                ELSE [store EXCEPT !.calls[i].state = "rejected"]
    /\ last' = [op |-> "loadFile", index |-> i]
    /\ UNCHANGED <<root, setBy, web_entity_map, router, nops, incoming, parser,
                   digest, connector>>

NextJsonStore ==
    \/ \E call \in JsonStoreCalls : JsonCall(call)
    \/ \E i \in 1..Len(store.calls) : SaveMem(i)
    \/ \E i \in 1..Len(store.calls) : WriteFileResolves(i)
    \/ \E i \in 1..Len(store.calls) : WriteFileRejects(i)
    \/ \E i \in 1..Len(store.calls) : LoadFile(i)

SpecJsonStore == InitJsonStore /\ [][NextJsonStore]_vars

(***************************************************************************)
(* Database connectors (PostgreSQLConnector, MySQLConnector).  The clients *)
(* created are numbered; client is #client, 0 when it is null.  A connect  *)
(* that has created its client is "connecting" until client.connect()      *)
(* settles.                                                                *)
(***************************************************************************)
NoClient == 0
NotEstablished == [status |-> FALSE, message |-> "Connection not established"]

InitConnector ==
    /\ root = EmptyMap
    /\ setBy = << >>
    /\ web_entity_map = EmptyMap
    /\ router = DefaultOptions
    /\ last = NoCall
    /\ nops = 0
    /\ incoming = NoIncoming
    /\ parser = NoParser
    /\ digest = NoDigest
    /\ store = NoStore
    /\ connector \in [kind : {"postgresql", "mysql"}, pool : BOOLEAN,
                       client : {NoClient}, clients : {<< >>}, calls : {<< >>}]

\* connect(): true at once when #client is set; otherwise a client is
\* created (or taken from the pool) and asked to connect
Connect ==
    /\ nops < MaxOps
    /\ nops' = nops + 1
    /\ IF connector.client # NoClient
       THEN /\ connector' = [connector EXCEPT
                    !.calls = Append(@, [state |-> "returned", client |-> NoClient,
                                         result |-> TRUE])]
            /\ last' = [op |-> "connect", created |-> FALSE, held |-> connector.client]
       ELSE /\ connector' = [connector EXCEPT
                    !.clients = Append(@, "connecting"),
                    !.calls = Append(@, [state |-> "connecting",
                                         client |-> Len(connector.clients) + 1,
                                         result |-> FALSE])]
            /\ last' = [op |-> "connect", created |-> TRUE, held |-> NoClient]
    /\ UNCHANGED <<root, setBy, web_entity_map, router, incoming, parser,
                   digest, store>>

\* client.connect() resolves: #client = client, connect returns true
ConnectResolves(i) ==
    /\ connector.calls[i].state = "connecting"
    /\ connector' = [connector EXCEPT
            !.client = connector.calls[i].client,
            !.clients[connector.calls[i].client] = "connected",
            !.calls[i].state = "returned",
            !.calls[i].result = TRUE]
    /\ last' = [op |-> "connected", index |-> i]
    /\ UNCHANGED <<root, setBy, web_entity_map, router, nops, incoming, parser,
                   digest, store>>

\* client.connect() rejects: connect returns false
ConnectRejects(i) ==
    /\ connector.calls[i].state = "connecting"
    /\ connector' = [connector EXCEPT
            !.clients[connector.calls[i].client] = "failed",
            !.calls[i].state = "returned"]
    /\ last' = [op |-> "connect failed", index |-> i]
    /\ UNCHANGED <<root, setBy, web_entity_map, router, nops, incoming, parser,
                   digest, store>>

\* disconnect(): nothing without a client; otherwise #client = null and the
\* client is ended or released
Disconnect ==
    /\ nops < MaxOps
    /\ nops' = nops + 1
    /\ connector' =
            IF connector.client = NoClient THEN connector
            ELSE [connector EXCEPT !.client = NoClient,
                                   !.clients[connector.client] = "ended"]
    /\ last' = [op |-> "disconnect", held |-> connector.client]
    /\ UNCHANGED <<root, setBy, web_entity_map, router, incoming, parser,
                   digest, store>>

\* execute(statement): the answer without a client, or that of the query,
\* which resolves or rejects
Execute(resolves) ==
    /\ nops < MaxOps
    /\ nops' = nops + 1
    /\ last' = [op |-> "execute", held |-> connector.client, threw |-> FALSE,
                answer |-> IF connector.client = NoClient THEN NotEstablished
                           ELSE [status |-> resolves, message |-> "of the query"]]
    /\ UNCHANGED <<root, setBy, web_entity_map, router, incoming, parser,
                   digest, store, connector>>

NextConnector ==
    \/ Connect
    \/ \E i \in 1..Len(connector.calls) : ConnectResolves(i)
    \/ \E i \in 1..Len(connector.calls) : ConnectRejects(i)
    \/ Disconnect
    \/ \E resolves \in BOOLEAN : Execute(resolves)

SpecConnector == InitConnector /\ [][NextConnector]_vars

(***************************************************************************)
(* Paths: a router of any trailing-slash policy, and requests whose paths  *)
(* end with up to MaxSlashes slashes.                                      *)
(***************************************************************************)
TrailingSlashPolicy == {"asis", "add", "remove"}

PathEntities ==
    {ApiEntity(<<"a">>, 1), ApiEntity(<<"a", "b">>, 1), ApiEntity(<<"b", "*">>, 1)}

PathRequests ==
    [path : PathsEndingWith(0..MaxSlashes), method : {"GET"},
     override : {NoOverride}, auth : {NoHeader}, accept : {TRUE}]

InitPath ==
    /\ root = EmptyMap
    /\ setBy = << >>
    /\ web_entity_map = EmptyMap
    /\ router \in [trailingSlashPolicy : TrailingSlashPolicy,
                   allowsPostMethodOverride : {FALSE}]
    /\ last = NoCall
    /\ nops = 0
    /\ incoming = NoIncoming
    /\ parser = NoParser
    /\ digest = NoDigest
    /\ store = NoStore
    /\ connector = NoConnector

NextPath ==
    \/ \E e \in PathEntities : Enable(e)
    \/ \E req \in PathRequests :
            Route(req, TRUE, NoResult, DefaultAnswer)

SpecPath == InitPath /\ [][NextPath]_vars

(***************************************************************************)
(* Properties of PatternMap, checked under SpecMap.                        *)
(***************************************************************************)
AllLiteral(tokens) == \A i \in 1..Len(tokens) : tokens[i] \in Literals
Sentinels == {wordwise_wildcard, wildcard}
\* some node on the way along the edges `tokens` has a sentinel child
SentinelAlong(t, tokens) ==
    \E i \in 0..(Len(tokens) - 1), k \in Sentinels :
        NodeHas(t, SubSeq(tokens, 1, i), k)

\* C1: when two sets follow one another, both succeed, and their patterns
\* differ in tokens and their values differ, get of each pattern returns
\* the value set with it
C1_Uniqueness ==
    [][(/\ last.op = "set" /\ last'.op = "set"
        /\ last.res = "ok" /\ last'.res = "ok"
        /\ last.pat.tokens # last'.pat.tokens
        /\ last.val # last'.val)
       => /\ PatternMapGet(root', last.pat) = last.val
          /\ PatternMapGet(root', last'.pat) = last'.val]_vars

\* C2: in every trie that set and delete produce, no node has both a
\* SEGMENT_WILDCARD child and a literal child (the set that would add the
\* second of them fails)
C2_NoMixedChildren ==
    \A n \in DOMAIN root :
        ~(NodeHas(root, n, wordwise_wildcard)
            /\ \E l \in Literals : NodeHas(root, n, l))

\* C4: a set that reaches a node holding a value stored with another Pattern
\* object leaves that value as it is
C4_OverwriteOnlyIdentical ==
    [][(last'.op = "set" /\ last'.res = "ok")
       => LET n == SetNode(root, last'.pat)
          IN  (n \in DOMAIN root /\ root[n] # Undefined /\ setBy[n] # last'.pat)
                  => root'[n] = root[n]]_vars

\* C5, as stated: a get with an all-literal pattern never returns a value
\* that was stored under a pattern with a parameter or wildcard token
C5_LiteralGetOriginal ==
    (/\ last.op = "get" /\ last.res = "ok"
     /\ AllLiteral(last.pat.tokens)
     /\ last.val # Undefined)
    => AllLiteral(setBy[GetNode(root, last.pat)].tokens)

\* C5, amended: a get with an all-literal pattern, when no node along its
\* literal edges has a sentinel child, follows the literal edges: it returns
\* what the node at the end of them holds, and a value it returns was stored
\* under these very tokens
C5_LiteralGet ==
    (/\ last.op = "get" /\ last.res = "ok"
     /\ AllLiteral(last.pat.tokens)
     /\ ~SentinelAlong(root, last.pat.tokens))
    => /\ last.val = IF last.pat.tokens \in DOMAIN root
                     THEN root[last.pat.tokens] ELSE Undefined
       /\ last.val # Undefined => setBy[last.pat.tokens].tokens = last.pat.tokens

\* a get of two literal tokens finds its value past no sentinel, in a trie
\* where another node has a sentinel child
C5_Witness ==
    /\ last.op = "get" /\ last.res = "ok"
    /\ AllLiteral(last.pat.tokens) /\ Len(last.pat.tokens) = 2
    /\ ~SentinelAlong(root, last.pat.tokens)
    /\ last.val # Undefined
    /\ \E n \in DOMAIN root, k \in Sentinels : NodeHas(root, n, k)

(***************************************************************************)
(* Properties of Router.enable and of the path lookup, under SpecRouter.   *)
(***************************************************************************)
\* C3: enable(e) throws and leaves the map as it is when the lookup of
\* e.path yields another entity, and returns without a change when it
\* yields e
C3_EnableConflict ==
    [][(last'.op = "enable" /\ ~GetKeysThrows(PathOf(last'.entity)))
       => LET e == last'.entity
              old == PatternMapGet(web_entity_map, PathOf(e))
          IN  /\ (old # Undefined /\ old # e)
                    => (last'.res = "Error" /\ web_entity_map' = web_entity_map)
              /\ old = e
                    => (last'.res = "ok" /\ web_entity_map' = web_entity_map)
              /\ old = Undefined => last'.res = "ok"]_vars

\* enable threw for an entity whose path no entity was enabled with: the
\* lookup of its path ran into the entity of another path
C3_Witness ==
    /\ last.op = "enable" /\ last.res = "Error"
    /\ \A n \in DOMAIN web_entity_map :
            web_entity_map[n] # Undefined
                => web_entity_map[n].path # last.entity.path

\* the lookup of a concrete path as C6 words it
RECURSIVE PathLookup(_, _, _)
PathLookup(t, n, segs) ==
    IF segs = << >> THEN t[n]
    ELSE IF Append(n, wildcard) \in DOMAIN t THEN t[Append(n, wildcard)]
    ELSE IF Append(n, wordwise_wildcard) \in DOMAIN t
        THEN PathLookup(t, Append(n, wordwise_wildcard), Tail(segs))
    ELSE IF Append(n, Head(segs)) \in DOMAIN t
        THEN PathLookup(t, Append(n, Head(segs)), Tail(segs))
    ELSE Undefined

\* C6: the endpoint route finds for a path of at least one segment is the
\* one the walk finds that takes the TERMINAL_WILDCARD child and stops, else
\* takes the SEGMENT_WILDCARD child, else the literal child, else misses
C6_PathLookup ==
    (last.op = "route" /\ last.parsed /\ Len(last.req.path.segs) > 0)
    => last.out.endpoint = PathLookup(web_entity_map, << >>, last.req.path.segs)

\* a request whose first segment has a literal child at the root, beside a
\* SEGMENT_WILDCARD child: the endpoint is found below the wildcard
C6_Witness ==
    /\ last.op = "route" /\ last.parsed /\ Len(last.req.path.segs) > 0
    /\ NodeHas(web_entity_map, << >>, wordwise_wildcard)
    /\ NodeHas(web_entity_map, << >>, last.req.path.segs[1])
    /\ web_entity_map[<<last.req.path.segs[1]>>] # Undefined
    /\ last.out.endpoint # NoEntity
    /\ last.out.endpoint # web_entity_map[<<last.req.path.segs[1]>>]

(***************************************************************************)
(* Properties of the dispatch, under SpecDispatch.                         *)
(***************************************************************************)
\* the handler of the entity for the method is the base implementation
NotOverridden(e, method) == ResolveHandler(e, ToLowerCase(method)) = "base"

\* C7: for a WebApi entity and each of the seven methods, supports is true
\* iff the handler is overridden, by the class of the entity or by a class
\* between it and WebApi
C7_SupportsIffOverridden ==
    (/\ last.op = "route" /\ last.parsed
     /\ last.out.endpoint # NoEntity
     /\ last.out.endpoint.class = "WebApi"
     /\ last.out.method \in HttpMethods)
    => (last.out.supports <=> ~NotOverridden(last.out.endpoint, last.out.method))

\* the entity does not support the method, as C8 words it
Unsupported(e, method) ==
    \/ e.class = "WebResource" /\ method # "GET"
    \/ e.class = "WebApi" /\ (method \notin HttpMethods \/ NotOverridden(e, method))

\* C8: a request whose path resolves to an entity that does not support the
\* effective method is answered 405, and neither verify nor a handler runs
C8_MethodNotAllowed ==
    (/\ last.op = "route" /\ last.parsed
     /\ last.out.endpoint # NoEntity
     /\ Unsupported(last.out.endpoint, last.out.method))
    => /\ last.out.resp.status = 405
       /\ last.out.resp.writeHead = 1 /\ last.out.resp.end = 1
       /\ ~last.out.verified
       /\ last.out.invoked = "none"

\* a POST overridden to a method that is none of the seven, which names a
\* function of the entity's prototype, is answered 405
C8_Witness ==
    /\ last.op = "route" /\ last.parsed
    /\ last.req.method = "POST" /\ last.out.method = "CONSTRUCTOR"
    /\ last.out.endpoint # NoEntity
    /\ last.out.endpoint.class = "WebApi"
    /\ last.out.resp.status = 405

\* C9: when the entity has a protocol and verification fails, the status
\* is 400, 401 or 403 and the response has a non-empty www-authenticate
C9_AuthClosure ==
    (/\ last.op = "route" /\ last.parsed
     /\ last.out.verified
     /\ AuthRequired(last.out.endpoint)
     /\ ~last.out.vr.ok)
    => /\ last.out.resp.status \in {400, 401, 403}
       /\ last.out.resp.www.defined
       /\ last.out.resp.www.parts # << >>

\* the protocols of e whose scheme is that of the header, letter case aside
MatchingProtocols(e, auth) ==
    {e.protocols[i] : i \in {j \in 1..Len(e.protocols) :
        SchemeToLowerCase(Protocols[e.protocols[j]].scheme) = SchemeToLowerCase(auth)}}

\* C10: verify answers ok when no protocol is registered; it delegates to
\* the protocol whose scheme is that of the authorization header, letter
\* case aside; it answers a failure without scheme only when the header is
\* missing or its scheme is that of no protocol
C10_VerifyDelegates ==
    (last.op = "route" /\ last.parsed /\ last.out.verified)
    => LET e == last.out.endpoint
           auth == last.req.auth
       IN  /\ ~AuthRequired(e) => (last.out.vr.ok /\ last.out.delegate = NoProtocol)
           /\ (AuthRequired(e) /\ auth # NoHeader /\ MatchingProtocols(e, auth) # {})
                => last.out.delegate \in MatchingProtocols(e, auth)
           /\ (AuthRequired(e) /\ (auth = NoHeader \/ MatchingProtocols(e, auth) = {}))
                => (~last.out.vr.ok /\ last.out.vr.scheme = NoScheme
                    /\ last.out.delegate = NoProtocol)

\* the method-support check of Router.route, lines 228-231, passes
MethodCheckPasses(e, method) ==
    \/ e.class = "WebResource" /\ method = "GET"
    \/ e.class = "WebApi" /\ Supports(e, method)

\* C11: the steps of one route call occur in order: the endpoint is looked
\* up only when the request parsed, verify runs only when the lookup hit
\* and the method check passed, and a handler is invoked only when verify
\* has answered ok; a step that fails is followed by no later step
C11_StepOrder ==
    last.op = "route"
    => LET o == last.out
       IN  /\ o.endpoint # NoEntity => last.parsed
           /\ o.verified => (o.endpoint # NoEntity
                                /\ MethodCheckPasses(o.endpoint, o.method))
           /\ o.invoked # "none" => (o.verified /\ o.vr.ok)
           /\ (o.endpoint # NoEntity /\ ~MethodCheckPasses(o.endpoint, o.method))
                => ~o.verified
           /\ (o.verified /\ ~o.vr.ok) => o.invoked = "none"
           /\ o.resp.writeHead = 1 => o.resp.end = 1

\* a handler is invoked after a protocol has verified the request
C11_Witness ==
    /\ last.op = "route" /\ last.parsed
    /\ last.out.invoked # "none"
    /\ last.out.delegate # NoProtocol
    /\ last.out.vr.ok
\* C12: every request gets exactly one response and route does not fail
\* (stated for the requests whose path resolves to an entity): writeHead
\* and end are each called once and no error leaves route
C12_ExactlyOneResponse ==
    (last.op = "route" /\ last.parsed /\ last.out.endpoint # NoEntity)
    => /\ last.out.resp.writeHead = 1
       /\ last.out.resp.end = 1
       /\ ~last.out.threw
\* the override headers a request carries, by their rank: 1 is
\* X-HTTP-Method, 2 X-HTTP-Method-Override, 3 X-Method-Override
OverridesPresent(req) == {i \in 1..3 : req.override[i] # NoHeader}

\* C13: the effective method differs from the request method only when the
\* option is on and the request is a POST; it is then the uppercased value
\* of the first override header present; otherwise the headers are ignored
C13_MethodOverride ==
    (last.op = "route" /\ last.parsed)
    => LET req == last.req
           applies == /\ router.allowsPostMethodOverride
                      /\ req.method = "POST"
                      /\ OverridesPresent(req) # {}
       IN  /\ last.out.method # req.method
                => (router.allowsPostMethodOverride /\ req.method = "POST")
           /\ applies =>
                LET first == CHOOSE i \in OverridesPresent(req) :
                                \A j \in OverridesPresent(req) : i <= j
                IN  last.out.method = ToUpperCase(req.override[first])
           /\ ~applies => last.out.method = req.method

\* a POST with two override headers, X-HTTP-Method-Override ahead of
\* X-Method-Override, routed under the method of the former
C13_Witness ==
    /\ last.op = "route" /\ last.parsed
    /\ router.allowsPostMethodOverride
    /\ last.req.method = "POST"
    /\ last.req.override[1] = NoHeader
    /\ last.req.override[2] # NoHeader /\ last.req.override[3] # NoHeader
    /\ last.req.override[2] # last.req.override[3]
    /\ last.out.method = ToUpperCase(last.req.override[2])
(***************************************************************************)
(* Properties of the path normalisation, under SpecPath.                   *)
(***************************************************************************)
\* C14: normalising the normalised path changes nothing; under "remove" the
\* path ends with no slash and the request has the outcome of the request
\* for the path without its trailing slashes; under "add" it ends with one
\* slash; under "asis" it is the request path
C14_TrailingSlash ==
    (last.op = "route" /\ last.parsed)
    => LET policy == router.trailingSlashPolicy
           stripped == [last.req EXCEPT !.path.slashes = 0]
       IN  /\ FormatRequestPath(policy, last.out.path) = last.out.path
           /\ last.out.path.segs = last.req.path.segs
           /\ policy = "remove"
                => /\ last.out.path.slashes = 0
                   /\ last.out = RouteOutcome(web_entity_map, router, stripped,
                                              TRUE, NoResult,
                                              DefaultAnswer)
           /\ policy = "add" => last.out.path.slashes = 1
           /\ policy = "asis" => last.out.path = last.req.path

\* under "remove", a path that ends with two slashes reaches an entity
C14_Witness ==
    /\ last.op = "route" /\ last.parsed
    /\ router.trailingSlashPolicy = "remove"
    /\ last.req.path.slashes = 2
    /\ last.out.endpoint # NoEntity
    /\ last.out.invoked # "none"
(***************************************************************************)
(* Properties of the responses to handler answers, under SpecHandler.      *)
(***************************************************************************)
\* the envelope a request's handler answered with
Answered(method) ==
    /\ last.op = "route" /\ last.parsed
    /\ last.out.method = method
    /\ last.out.invoked = ToLowerCase(method)
    /\ last.answer.kind = "ok"

\* C15, as stated ("set" read as holding true): the status of a PUT is 200
\* when noContent and created are both set, otherwise 204 when noContent
\* is set, otherwise 201 when created is set, otherwise a statusCode in
\* [200, 599], otherwise 200; statusCode, noContent and created are no
\* headers, every other member of the envelope is
C15_PutStatusOriginal ==
    Answered("PUT")
    => LET v == last.answer.envelope
       IN  /\ last.out.resp.status =
                  IF v.noContent = "true" /\ v.created = "true" THEN 200
                  ELSE IF v.noContent = "true" THEN 204
                  ELSE IF v.created = "true" THEN 201
                  ELSE IF ValidStatus(v.statusCode) THEN v.statusCode
                  ELSE 200
           /\ last.out.resp.headers =
                  EnvelopeMembers(v) \ {"statusCode", "noContent", "created"}

\* C15, amended: the status of a PUT is 200 when noContent and created are
\* both booleans, whatever they hold; otherwise 204 when noContent is true,
\* otherwise 201 when created is true, otherwise a statusCode in [200, 599],
\* otherwise 200; statusCode, noContent and created are no headers, every
\* other member of the envelope is, and nothing else is written
C15_PutStatus ==
    Answered("PUT")
    => LET v == last.answer.envelope
           both == v.noContent # Absent /\ v.created # Absent
       IN  /\ both => last.out.resp.status = 200
           /\ (~both /\ v.noContent = "true") => last.out.resp.status = 204
           /\ (~both /\ v.noContent # "true" /\ v.created = "true")
                => last.out.resp.status = 201
           /\ (~both /\ v.noContent # "true" /\ v.created # "true")
                => last.out.resp.status =
                      IF v.statusCode # NoStatus /\ v.statusCode >= 200
                         /\ v.statusCode <= 599
                      THEN v.statusCode ELSE 200
           /\ last.out.resp.headers \cap {"statusCode", "noContent", "created"} = {}
           /\ \A f \in EnvelopeMembers(v) \ {"statusCode", "noContent", "created"} :
                   f \in last.out.resp.headers
           /\ ~last.out.resp.body

\* a PUT answered with noContent true and created false gets 200, with
\* accepted among the headers
C15_Witness ==
    /\ Answered("PUT")
    /\ last.answer.envelope.noContent = "true"
    /\ last.answer.envelope.created = "false"
    /\ last.answer.envelope.statusCode = 404
    /\ last.out.resp.status = 200
    /\ "accepted" \in last.out.resp.headers

\* C16, as stated ("set" read as holding true): the status of a DELETE is
\* 200 when noContent and accepted are both set, otherwise 204 when
\* noContent is set, otherwise 202 when accepted is set, otherwise a
\* statusCode in [200, 599], otherwise 200; a body is written exactly when
\* the status is not 204, and it is the envelope without statusCode,
\* noContent and accepted
C16_DeleteStatusOriginal ==
    Answered("DELETE")
    => LET v == last.answer.envelope
       IN  /\ last.out.resp.status =
                  IF v.noContent = "true" /\ v.accepted = "true" THEN 200
                  ELSE IF v.noContent = "true" THEN 204
                  ELSE IF v.accepted = "true" THEN 202
                  ELSE IF ValidStatus(v.statusCode) THEN v.statusCode
                  ELSE 200
           /\ last.out.resp.body <=> last.out.resp.status # 204
           /\ last.out.resp.body
                => last.out.resp.members =
                      EnvelopeMembers(v) \ {"statusCode", "noContent", "accepted"}

\* C16, amended: the status of a DELETE is 200 when noContent and accepted
\* are both booleans, whatever they hold; otherwise 204 when noContent is
\* true, otherwise 202 when accepted is true, otherwise a statusCode in
\* [200, 599], otherwise 200; a body is written exactly when the status is
\* not 204, and it is the envelope without statusCode, noContent, accepted
C16_DeleteStatus ==
    Answered("DELETE")
    => LET v == last.answer.envelope
           both == v.noContent # Absent /\ v.accepted # Absent
       IN  /\ both => last.out.resp.status = 200
           /\ (~both /\ v.noContent = "true") => last.out.resp.status = 204
           /\ (~both /\ v.noContent # "true" /\ v.accepted = "true")
                => last.out.resp.status = 202
           /\ (~both /\ v.noContent # "true" /\ v.accepted # "true")
                => last.out.resp.status =
                      IF v.statusCode # NoStatus /\ v.statusCode >= 200
                         /\ v.statusCode <= 599
                      THEN v.statusCode ELSE 200
           /\ last.out.resp.body <=> last.out.resp.status # 204
           /\ last.out.resp.body
                => last.out.resp.members =
                      EnvelopeMembers(v) \ {"statusCode", "noContent", "accepted"}
           /\ ~last.out.resp.body => last.out.resp.members = {}

\* a DELETE answered with noContent false and accepted true gets 200 and a
\* body that holds created
C16_Witness ==
    /\ Answered("DELETE")
    /\ last.answer.envelope.noContent = "false"
    /\ last.answer.envelope.accepted = "true"
    /\ last.out.resp.status = 200
    /\ last.out.resp.body
    /\ "created" \in last.out.resp.members
C17_ContentHeaders ==
    (last.op = "route" /\ last.out.resp.writeHead = 1)
    => /\ last.out.resp.contentLength
       /\ last.out.resp.body => last.out.resp.contentType # "none"
(***************************************************************************)
(* Properties of the request body, under SpecParse.                        *)
(***************************************************************************)
\* C19: with a Content-Length of n >= 0, parse resolves only if the bytes
\* received add up to n; otherwise it rejects, and the response is 400
\* with no lookup, no verification and no handler
C19_ContentLength ==
    (last.op = "route" /\ incoming.content_length >= 0)
    => /\ last.parsed
            => incoming.actual_content_length = incoming.content_length
       /\ incoming.actual_content_length # incoming.content_length
            => /\ ~last.parsed
               /\ last.out.resp.status = 400
               /\ last.out.resp.writeHead = 1 /\ last.out.resp.end = 1
               /\ last.out.endpoint = NoEntity
               /\ ~last.out.verified
               /\ last.out.invoked = "none"

\* a request for an enabled entity declares 1 byte and sends 2: 400
C19_Witness ==
    /\ last.op = "route"
    /\ incoming.content_length = 1 /\ incoming.actual_content_length = 2
    /\ incoming.decodes
    /\ PatternMapGet(web_entity_map, Escape(last.req.path.segs)) # Undefined
    /\ last.out.resp.status = 400
    /\ last.out.invoked = "none"

\* C20: a body longer than the declared Content-Length is answered with 413
\* before any endpoint is dispatched
C20_PayloadTooLarge ==
    (last.op = "route" /\ incoming.content_length >= 0
        /\ incoming.actual_content_length > incoming.content_length)
    => /\ last.out.resp.status = 413
       /\ last.out.invoked = "none"
(***************************************************************************)
(* Properties of cancellation, under SpecCancel.                           *)
(***************************************************************************)
\* C21: a request whose stream emitted "error" or was aborted before its
\* handler was invoked has no handler invoked
C21_NoHandlerAfterCancel ==
    (last.op = "route" /\ incoming.cancelled) => last.out.invoked = "none"
(***************************************************************************)
(* Properties of the handler parameters, under SpecParams and SpecDecode.  *)
(***************************************************************************)
\* the map that holds the keys of both, with the values of later on the
\* keys they share
Overriding(earlier, later) ==
    [k \in DOMAIN earlier \cup DOMAIN later |->
        IF k \in DOMAIN later THEN later[k] ELSE earlier[k]]

\* the decoded path parameters of the request last routed
PathParams ==
    LET extracted == PatternExtract(last.out.endpoint.path, last.out.path.segs).params
    IN  [k \in DOMAIN extracted |-> DecodeURIComponent(extracted[k]).value]

\* what the body of the request last routed adds to the params
BodyParams ==
    IF last.out.method \in {"GET", "HEAD", "DELETE"} THEN EmptyObject
    ELSE IF last.body.kind = "map" THEN last.body.fields
    ELSE [body |-> last.body.text]

\* C22: the params of a WebApi handler are merge(query, pathParams, body),
\* a later source overriding an earlier one; the body is merged unless the
\* method is GET, HEAD or DELETE, as its fields when it is a map and under
\* the key body when it is a string or bytes
C22_ParamsMerge ==
    (last.op = "route" /\ last.called)
    => last.params = Overriding(Overriding(last.query, PathParams), BodyParams)

RECURSIVE ReplaceEncodedSlash(_)
\* the path with "2" written for every encoded slash
ReplaceEncodedSlash(s) ==
    IF s = "" THEN ""
    ELSE IF Len(s) >= 3 /\ SubSeq(s, 1, 3) = "%2F"
    THEN "2" \o ReplaceEncodedSlash(SubSeq(s, 4, Len(s)))
    ELSE Head(s) \o ReplaceEncodedSlash(Tail(s))

Contains(s, sub) ==
    \E i \in 1..(Len(s) - Len(sub) + 1) : SubSeq(s, i, i + Len(sub) - 1) = sub

Yielded == {parser.yielded[i] : i \in 1..Len(parser.yielded)}
\* the auth-scheme of a descriptor as it is written in its value
SchemeOf(desc) == SplitAtSpaces(desc.value, "")[1]

AuthParamNames(desc) == DOMAIN desc.params \ {"scheme"}

\* C25: besides "scheme", the params of every descriptor the credentials
\* parser yields hold either the single key "token68" or the auth-params,
\* never both; every auth-param name is stored lowercased and no value is
\* left a quoted string.
C25_ParamsOfCredentials ==
    parser.kind = "credentials" =>
        \A desc \in Yielded :
            /\ "token68" \in AuthParamNames(desc) => AuthParamNames(desc) = {"token68"}
            /\ \A name \in AuthParamNames(desc) :
                  /\ name = StringToLowerCase(name)
                  /\ ~IsQuotedString(desc.params[name])

\* what holds of the params whatever the case of the names: the token68 or
\* the auth-params, and every quoted value unescaped
Token68OrAuthParams ==
    parser.kind = "credentials" =>
        \A desc \in Yielded :
            /\ "token68" \in AuthParamNames(desc) => AuthParamNames(desc) = {"token68"}
            /\ \A name \in AuthParamNames(desc) : ~IsQuotedString(desc.params[name])

(***************************************************************************)
(* Claims on the generic header-value parser.                              *)
(***************************************************************************)
\* what the documented table gives for the step the parser takes: the
\* kind of the token taken, and the fragments counted in the state left
DocumentedStep ==
    DocumentedTransition(
        parser.state,
        IF last'.op = "end" THEN "end" ELSE TokenKind(last'.token),
        IF parser.state = "WAIT_PARAM_VALUE" THEN Len(parser.buf) - 1
        ELSE Len(parser.buf))

\* a step of the parser does what the table documents, its errors being
\* of the classes given
FollowsTable(errors) ==
    IF DocumentedStep.error
    THEN parser'.error \in errors /\ parser'.yielded = << >>
    ELSE /\ parser'.error = "none"
         /\ parser'.state = DocumentedStep.next
         /\ Len(parser'.yielded) = IF DocumentedStep.parsed THEN 1 ELSE 0
         /\ \A i \in 1..Len(parser'.yielded) : parser'.yielded[i].value # ""

\* C26: every step of the generic header-value parser is the one of its
\* documented transition table: the same next state, a descriptor yielded
\* exactly where the table parses one, and a SyntaxError exactly where the
\* table has an error; every descriptor yielded has a non-empty value, and
\* an empty list element (a leading, doubled or trailing comma) is an error.
C26_TransitionTable ==
    [][parser.kind = "generic" => FollowsTable({"SyntaxError"})]_vars

\* the parameter the parser is reading the value of is set already
GivenTwice ==
    /\ parser.state = "WAIT_PARAM_VALUE" /\ parser.desc.hasParams
    /\ StringToLowerCase(parser.buf[1]) \in DOMAIN parser.desc.params

\* the table is followed when the class of the error is left aside, but
\* for the parameter given twice, which _setDescParam refuses
TableButErrorClass ==
    [][(parser.kind = "generic" /\ ~GivenTwice)
          => FollowsTable({"SyntaxError", "ReferenceError"})]_vars

(***************************************************************************)
(* Claims on JSON in requests.                                             *)
(***************************************************************************)
RECURSIVE HasProto(_)
\* "__proto__" is an own key of the value, or of a value within it
HasProto(value) ==
    /\ value.kind = "object"
    /\ \/ "__proto__" \in DOMAIN value.fields
       \/ \E k \in DOMAIN value.fields : HasProto(value.fields[k])

C28_VerifyResolves ==
    (last.op = "verify" /\ digest.constructed = "yes") =>
        /\ ~last.result.rejected
        /\ last.result.scheme = "Digest"
        /\ last.result.ok =>
              LET parameters == last.request.authorization.params
              IN  /\ ~last.request.authorization.malformed
                  /\ digest.users.registered
                  /\ parameters.username \in DOMAIN digest.users.content
                  /\ parameters.response =
                        DigestResponse(digest, last.request.method, parameters,
                                       digest.users.content[parameters.username])

\* the request of a user whose password is stored has been verified, with
\* ok true
C28_Witness ==
    /\ last.op = "verify" /\ digest.constructed = "yes"
    /\ last.result.ok
    /\ last.request.authorization.params.username = "alice"

\* C29: constructing a DigestAuthProtocol with a valid qop and secretData
\* succeeds for the algorithm "MD5", for "SHA-256", and for none given, in
\* which case the algorithm is MD5.
C29_ConstructorSucceeds ==
    (/\ last.op = "construct"
     /\ last.params.qop # "undefined"
     /\ last.params.secretData # "undefined") =>
        /\ digest.constructed = "yes"
        /\ last.params.algorithm = "undefined" => digest.algorithm = "MD5"

(***************************************************************************)
(* Claims on files.                                                        *)
(***************************************************************************)
\* the path is that of the directory, or of something under it
Within(path, directory) ==
    LET p == SplitSegments(path, "")
        d == SplitSegments(directory, "")
    IN  Len(p) >= Len(d) /\ SubSeq(p, 1, Len(d)) = d

\* C30: a WebResource with a file target opens no file outside its target:
\* whatever the trailing segments are, ".." and empty ones included, the
\* path it opens is the target or under the target and a separator, or the
\* request fails with a ForbiddenError (403) and nothing is opened.
C30_NoFileOutsideRoot ==
    last.op = "get" =>
        IF last.out.error = "ForbiddenError"
        THEN last.out.status = 403 /\ last.out.opened = "none"
        ELSE /\ last.out.error = "none"
             /\ last.out.opened = PathResolve(last.out.opened)
             /\ \/ last.out.opened = last.target
                \/ StartsWith(last.out.opened, last.target \o "/")
             /\ Within(last.out.opened, last.target)

\* the sibling of the target whose name begins like the target's has been
\* asked for through "..", and refused
C30_Witness ==
    /\ last.op = "get"
    /\ last.target = "/srv/www"
    /\ last.segments = <<"..", "www2">>
    /\ last.out.target_path = "/srv/www2"
    /\ last.out.error = "ForbiddenError"


\* the weight the q parameter of an accepted type stands for, in tenths
WeightOf(accepted_type) ==
    CASE accepted_type.q = "undefined" -> 10
      [] accepted_type.q = "0.5" -> 5
      [] accepted_type.q = "2" -> 10
      [] accepted_type.q \in {"abc", "-1"} -> 0

\* the accepted types of the last get for which getAllowedType is defined
Acceptable ==
    {i \in 1..Len(last.acceptedTypes) :
        GetAllowedType(last.resource, last.acceptedTypes[i].value).defined}

\* i is tried before j: greater weight, or the same weight and earlier in
\* the header
TriedBefore(i, j) ==
    \/ WeightOf(last.acceptedTypes[i]) > WeightOf(last.acceptedTypes[j])
    \/ /\ WeightOf(last.acceptedTypes[i]) = WeightOf(last.acceptedTypes[j])
       /\ i < j

C32_HeadWithoutBody ==
    (last.op = "route" /\ last.parsed /\ last.out.method = "HEAD"
        /\ last.out.resp.writeHead = 1)
    => /\ ~last.out.resp.body
       /\ (last.out.invoked = "head" /\ last.answer.kind = "ok")
            => last.out.resp.status = 204

\* C33: has(p) is true exactly for the registered patterns: after the set
\* of a literal pattern into a map that holds nothing, has is true of the patterns
\* with the tokens set and of no other, not even of a proper prefix of
\* them; and a delete returns true only for a pattern whose tokens some
\* value of the map was set with
C33_HasIffRegistered ==
    [][/\ (root = EmptyMap /\ last'.op = "set" /\ last'.res = "ok"
            /\ AllLiteral(last'.pat.tokens))
            => \A q \in PatternObjs :
                    ~GetKeysThrows(q)
                        => (PatternMapHas(root', q)
                                <=> q.tokens = last'.pat.tokens)
       /\ (last'.op = "delete" /\ last'.res = "true")
            => \E n \in DOMAIN setBy : setBy[n].tokens = last'.pat.tokens]_vars

\* C34: disable(e) affects only e: every other entity the lookup of whose
\* path gives it before the call is given by that lookup after the call,
\* also one whose path extends the path of e
C34_DisableOnlyThat ==
    [][(last'.op = "disable" /\ last'.res = "ok")
       => \A f \in LookupEntities \ {last'.entity} :
            PatternMapGet(web_entity_map, PathOf(f)) = f
                => PatternMapGet(web_entity_map', PathOf(f)) = f]_vars

\* C35: once enable(e) has returned without error, a request whose path is
\* the literal segments of e is looked up as e, and every enable that
\* succeeds afterwards leaves it so
C35_EnabledStaysReachable ==
    [][(last'.op = "enable" /\ last'.res = "ok")
       => /\ AllLiteral(last'.entity.path)
                => PatternMapGet(web_entity_map', Escape(last'.entity.path))
                        = last'.entity
          /\ \A f \in LookupEntities :
                (/\ AllLiteral(f.path)
                 /\ PatternMapGet(web_entity_map, Escape(f.path)) = f)
                    => PatternMapGet(web_entity_map', Escape(f.path)) = f]_vars

\* C36: the request descriptor given to entity.verify carries the method of
\* the request as it came, while the method-support check and the choice of
\* the handler use the effective method: a POST overridden to M is verified
\* as a POST and handled by the handler of M
C36_VerifyWithOriginalMethod ==
    (last.op = "route" /\ last.parsed /\ last.out.verified)
    => /\ last.out.request_desc.method = last.req.method
       /\ MethodCheckPasses(last.out.endpoint, last.out.method)
       /\ (last.out.endpoint.class = "WebApi" /\ last.out.invoked # "none")
            => last.out.invoked = ToLowerCase(last.out.method)

\* a POST overridden to PUT is verified by a protocol as a POST, accepted,
\* and handled by put
C36_Witness ==
    /\ last.op = "route" /\ last.parsed /\ last.out.verified
    /\ last.req.method = "POST"
    /\ last.out.method = "PUT"
    /\ last.out.delegate # NoProtocol
    /\ last.out.request_desc.method = "POST"
    /\ last.out.invoked = "put"

\* C37: the credentials parser emits one descriptor per challenge, in input
\* order: when a challenge with auth-params is followed by a scheme alone
\* and a comma, that comma makes the parser yield the challenge with the
\* auth-params and then the scheme-only challenge as a descriptor of its
\* own, and no token of it is kept for a later descriptor
C37_SchemeOnlyChallengeYielded ==
    [][(/\ parser.kind = "credentials"
        /\ parser.state = "WAIT_SPACE_OR_KV_SEP"
        /\ last'.op = "token" /\ last'.token = ","
        /\ parser'.error = "none")
       => /\ Len(parser'.yielded) = 2
          /\ SchemeOf(parser'.yielded[2]) = Concat(parser.buf)
          /\ parser'.buf = << >>]_vars

\* C38: in an InMemoryCredentialStore only signup adds a key: a delete
\* (with any projection, undefined and null too) or an update of a key the
\* store does not have returns false and leaves has(key) false and the size
\* as it was; and every call that returns false leaves the store unchanged
C38_OnlySignupAddsKey ==
    [][(store.kind = "inmemory" /\ last'.op = "store")
       => /\ (/\ last'.call.op \in {"delete", "update"}
              /\ last'.call.key \notin DOMAIN store.mem)
                => /\ ~last'.result
                   /\ last'.call.key \notin DOMAIN store'.mem
                   /\ Cardinality(DOMAIN store'.mem) = Cardinality(DOMAIN store.mem)
          /\ ~last'.result => store' = store]_vars

\* every call on the store has settled
AllSettled ==
    /\ store.calls # << >>
    /\ \A i \in 1..Len(store.calls) :
            store.calls[i].state \in {"returned", "rejected"}

\* C39: once all the calls made on a JsonCachedCredentialStore have
\* settled, whatever their interleaving, the file holds what _store holds;
\* a call whose write failed has returned false
C39_FileEqualsMemory ==
    (store.kind = "jsoncached" /\ AllSettled)
    => /\ store.file = store.mem
       /\ \A i \in 1..Len(store.calls) : store.calls[i].state = "returned"

\* C40: whatever the interleaving of connect, disconnect and execute on a
\* connector, every client that is connected is the one the connector
\* holds, so that at most one is held and none is left connected without
\* being referenced; connect with a client held returns true and creates
\* none; execute without a client answers {status: false, message:
\* "Connection not established"} and does not throw
C40_OneClientHeld ==
    connector.kind # "none"
    => /\ \A c \in 1..Len(connector.clients) :
                connector.clients[c] = "connected" => connector.client = c
       /\ (last.op = "connect" /\ last.held # NoClient) => ~last.created
       /\ (last.op = "execute" /\ last.held = NoClient)
            => (last.answer = NotEstablished /\ ~last.threw)
====
